---- MODULE Spec2Model ----
(***************************************************************************)
(* Model of SDKClient (packages/relay/src/lib/clients/sdkClient.ts): the   *)
(* adapter that runs queries and transactions against the consensus node,  *)
(* records one cost observation per metered call and normalises native     *)
(* errors.                                                                 *)
(*                                                                         *)
(* Every invocation of an operation lives in a slot p.  The code between   *)
(* two awaits runs without interruption, so an action is either the call   *)
(* of an operation up to its first await, or the continuation that runs    *)
(* when the awaited native call settles.  Invocations of different slots   *)
(* interleave at their awaits.                                             *)
(***************************************************************************)
EXTENDS Integers, Sequences, FiniteSets, Bags, TLC

\* ---------------------------------------------------------------- bounds

\* Invocations made during one run.
MaxCalls == 2
\* Largest payment, fee, cost or balance, in tinybars.
MaxCost == 1
\* SDKClient objects constructed on one registry during one run.
MaxInstances == 3
\* Entries of the fee schedule's table.
MaxEntries == 2
\* Largest gas component, in thousands, and largest terms of an exchange rate.
MaxKiloGas == 21
MaxHbars == 9
MaxCents == 12
\* Longest string handed to prepend0x and prune0x.
MaxLen == 4
\* Longest run of '0' characters at the head of a to-address.
MaxZeros == 12

Procs == 1..MaxCalls
Costs == 0..MaxCost

\* ------------------------------------------------------------ JS values

\* undefined, and a defined value x.
None == <<>>
Some(x) == <<x>>

\* Status._code of the SDK statuses the code or the claims name.
StatusOk == 0
StatusInsufficientPayerBalance == 10
StatusUnknown == 21
StatusSuccess == 22

transactionMode == "TRANSACTION"
queryMode == "QUERY"

\* The statuses a native failure may carry: none, OK (code 0), or a failure code.
FailureStatuses == {None, Some(StatusOk), Some(StatusInsufficientPayerBalance)}

\* The message of the error that the SDK throws with status st: a message of
\* its own for each case of status.
MessageOf(st) == IF st = None THEN "m1" ELSE IF st = Some(StatusOk) THEN "m2" ELSE "m3"
Messages == {MessageOf(st) : st \in FailureStatuses}

\* The errors thrown by the SDK: the object itself (native), its status and message.
NativeErrors == {[native |-> TRUE, status |-> st, message |-> MessageOf(st)] : st \in FailureStatuses}

\* new Error(message): a fresh object with a message and no status.
NewError(message) == [native |-> FALSE, status |-> None, message |-> message]

InvalidResponseFormat == "Invalid response format, expected record availability"

\* What query.execute / transaction.execute / getReceipt resolve to.
Responses == {[body |-> "r1"], [body |-> "r2"]}
\* A TransactionRecord: its receipt status and the fee charged.
Records == [status : {StatusSuccess, StatusInsufficientPayerBalance}, fee : Costs]

QueryTypes == {"AccountBalanceQuery"}
TransactionNames == {"EthereumTransaction", "ContractCreateTransaction"}
Payments == {None} \cup {Some(c) : c \in Costs}

\* ---------------------------------------------------------------- state

VARIABLES
    op,         \* op[p]: the operation slot p runs ("none" before its call)
    pc,         \* pc[p]: "idle", the native call awaited, or "done"
    query,      \* query[p]: the Query object: constructor name and _queryPayment
    name,       \* name[p]: the transaction's type, or the transactionName argument
    response,   \* response[p]: whether the resp argument has a getRecord method
    result,     \* result[p]: how the invocation ended: returned value or raised error
    settled,    \* settled[p]: once p is done, how the native call it awaited last settled
    events,     \* events[p]: native calls, observations and the outcome, in code order
    observed,   \* observed[p]: the observations invocation p recorded
    histogram,  \* consensusNodeClientHistorgram: the bag of its observations
    gaugeDecs,  \* operatorAccountGauge: the bag of dec() calls on labelled series
    estimatedCost,  \* estimatedCost[p]: the local `cost` of submitContractCallQuery
    contractId, \* contractId[p]: the ContractId set on the ContractCallQuery
    feeSchedules,   \* feeSchedules[p]: the local `feeSchedules` of getTinyBarGasFee, once parsed
    exchangeRates,  \* exchangeRates[p]: the local `exchangeRates` of getTinyBarGasFee, once parsed
    fault,      \* how the metric primitives of the registry behave: "none" is as documented
    gauge,      \* operatorAccountGauge: the value of its unlabelled series, set by collect()
    errorLog,   \* what logger.error has been called with
    registry,   \* the metrics of the registry `register`, in registration order
    instances,  \* how many SDKClient objects have been constructed on `register`
    arg,        \* the argument of the helper function under evaluation
    ret,        \* its value, once evaluated
    clientMain, \* this.clientMain
    clients     \* clients[p]: the client each native call of invocation p was given

\* The locals of the operations that have some.
locals == <<estimatedCost, contractId, feeSchedules, exchangeRates>>
\* The metric registry, the gauge's own series, and the logger.
metricsEnv == <<fault, gauge, errorLog, registry, instances>>
\* The evaluation of a helper function.
evaluation == <<arg, ret>>

vars == <<op, pc, query, name, response, result, settled, events, observed, histogram, gaugeDecs,
          locals, metricsEnv, evaluation, clientMain, clients>>

\* The settlement of a native call: resolved with v, or rejected with e.
Resolved(call, v) == Some([call |-> call, ok |-> TRUE, value |-> Some(v), error |-> None])
Rejected(call, e) == Some([call |-> call, ok |-> FALSE, value |-> None, error |-> Some(e)])

Pending == [kind |-> "pending", value |-> None, error |-> None]
Return(v) == [kind |-> "return", value |-> Some(v), error |-> None]
Raise(e) == [kind |-> "raise", value |-> None, error |-> Some(e)]

NoQuery == [type |-> "none", payment |-> None]

\* ------------------------------------------------------------ constructor

HistogramName == "rpc_relay_consensusnode_response"
GaugeName == "rpc_relay_operator_balance"

\* The metric object that SDKClient number n creates under metricName.
Metric(metricName, kind, n) == [name |-> metricName, kind |-> kind, instance |-> n]

\* Faulty variant: the metric of that name is left in the registry.
removeSingleMetric_Kept(reg, metricName) == reg

\* register.removeSingleMetric(metricName)
removeSingleMetric(reg, metricName) == SelectSeq(reg, LAMBDA m : m.name # metricName)

\* Registry.registerMetric throws when another metric has the name already.
CanRegister(reg, metricName) == \A i \in DOMAIN reg : reg[i].name # metricName

\* new SDKClient(clientMain, logger, register), the n-th on this registry: the
\* registry it leaves, and whether the constructor returned or threw.
constructor(reg, n) ==
    LET r1 == removeSingleMetric(reg, HistogramName)
        r2 == Append(r1, Metric(HistogramName, "Histogram", n))
        r3 == removeSingleMetric(r2, GaugeName)
        r4 == Append(r3, Metric(GaugeName, "Gauge", n))
    IN  IF ~CanRegister(r1, HistogramName) THEN [registry |-> r1, outcome |-> "threw"]
        ELSE IF ~CanRegister(r3, GaugeName) THEN [registry |-> r3, outcome |-> "threw"]
        ELSE [registry |-> r4, outcome |-> "constructed"]

\* The Client object handed to `new SDKClient(clientMain, logger, register)`.
ClientArgument == "clientMain"

\* The adapter right after `new SDKClient(...)` on an empty registry.
Constructed ==
    /\ clientMain = ClientArgument
    /\ clients = [p \in Procs |-> <<>>]
    /\ op = [p \in Procs |-> "none"]
    /\ pc = [p \in Procs |-> "idle"]
    /\ query = [p \in Procs |-> NoQuery]
    /\ name = [p \in Procs |-> "none"]
    /\ response = [p \in Procs |-> TRUE]
    /\ result = [p \in Procs |-> Pending]
    /\ settled = [p \in Procs |-> None]
    /\ events = [p \in Procs |-> <<>>]
    /\ observed = [p \in Procs |-> <<>>]
    /\ histogram = EmptyBag
    /\ gaugeDecs = EmptyBag
    /\ estimatedCost = [p \in Procs |-> None]
    /\ contractId = [p \in Procs |-> None]
    /\ feeSchedules = [p \in Procs |-> None]
    /\ exchangeRates = [p \in Procs |-> None]
    /\ gauge = None
    /\ errorLog = EmptyBag
    /\ registry = constructor(<<>>, 1).registry
    /\ instances = <<constructor(<<>>, 1).outcome>>

\* The metric primitives work, and no helper function is under evaluation.
Init ==
    /\ Constructed
    /\ fault = "none"
    /\ arg = None
    /\ ret = None

\* A caller may invoke an operation in slot p once the slots before it are in use.
CanCall(p) ==
    /\ op[p] = "none"
    /\ \A r \in Procs : r < p => op[r] # "none"

\* -------------------------------------------------------- captureMetrics

\* const resolvedCost = cost ? cost : 0
ResolvedCost(cost) == IF cost # None /\ cost[1] # 0 THEN cost[1] ELSE 0

\* The histogram observation of one captureMetrics call.
Observation(mode, type, status, cost) ==
    [mode |-> mode, type |-> type, status |-> status, cost |-> ResolvedCost(cost)]

\* Faulty variant: the decrement is made on the series without labels.
GaugeDec_Unlabelled(mode, type, cost) == [mode |-> "", type |-> "", amount |-> cost]

\* The gauge dec(cost) of one captureMetrics call, on series (mode, type).
GaugeDec(mode, type, cost) == [mode |-> mode, type |-> type, amount |-> cost]

\* The primitive of the metrics library that throws whenever it is called,
\* when one does: Histogram.observe, or Gauge.dec.
Faults == {"observe", "dec"}

\* What a throwing metric primitive throws: an error without a status.
RecorderError == [native |-> FALSE, status |-> None, message |-> "metric"]

\* The arguments of one captureMetrics call.
MetricsCall(mode, type, status, cost) ==
    [mode |-> mode, type |-> type, status |-> status, cost |-> cost]

\* The observations that the calls `calls` of captureMetrics get recorded:
\* line 329 runs unless observe throws.
ObservationsOf(calls) ==
    IF fault = "observe" THEN <<>>
    ELSE [i \in DOMAIN calls |->
            Observation(calls[i].mode, calls[i].type, calls[i].status, calls[i].cost)]

\* The gauge decrements they get recorded: line 332 runs only after line 329
\* returned, and records unless dec throws.
GaugeDecsOf(calls) ==
    IF fault = "none"
    THEN [i \in DOMAIN calls |-> GaugeDec(calls[i].mode, calls[i].type, calls[i].cost)]
    ELSE <<>>

RECURSIVE BagOfSeq(_)
BagOfSeq(s) == IF s = <<>> THEN EmptyBag ELSE SetToBag({Head(s)}) (+) BagOfSeq(Tail(s))

\* The "observe" events of n captureMetrics calls.
Observes(n) == IF fault = "observe" THEN <<>> ELSE [i \in 1..n |-> "observe"]

\* Faulty variant: an observation replaces those recorded before it.
captureMetricsCalls_Overwriting(p, calls) ==
    /\ histogram' = BagOfSeq(ObservationsOf(calls))
    /\ gaugeDecs' = gaugeDecs (+) BagOfSeq(GaugeDecsOf(calls))
    /\ observed' = [observed EXCEPT ![p] = @ \o ObservationsOf(calls)]

\* Invocation p calls captureMetrics once per element of calls, in order.
captureMetricsCalls(p, calls) ==
    /\ histogram' = histogram (+) BagOfSeq(ObservationsOf(calls))
    /\ gaugeDecs' = gaugeDecs (+) BagOfSeq(GaugeDecsOf(calls))
    /\ observed' = [observed EXCEPT ![p] = @ \o ObservationsOf(calls)]

\* captureMetrics(mode, type, status, cost) called by invocation p.
captureMetrics(p, mode, type, status, cost) ==
    captureMetricsCalls(p, <<MetricsCall(mode, type, status, cost)>>)

\* Nothing encloses captureMetrics in a try of its own: what follows the call
\* takes place only if the call returned, and its error leaves the block.
AfterMetrics(r) == IF fault = "none" THEN r ELSE Raise(RecorderError)

NoMetrics == UNCHANGED <<histogram, gaugeDecs, observed>>

\* ------------------------------------------------------- error handling

\* Faulty variant: the test forgets the numeric code, if (e.status).
HasStatusCode_AnyStatus(e) == e.status # None

\* if (e.status && e.status._code)
HasStatusCode(e) == e.status # None /\ e.status[1] # 0

\* Faulty variant: every caught error is re-wrapped.
Normalize_Always(e) == NewError(e.message)

\* if (e.status && e.status._code) throw new Error(e.message); throw e;
Normalize(e) == IF HasStatusCode(e) THEN NewError(e.message) ELSE e

\* The invocation ends: the pending promise settles with r.
Settle(p, evs, r) ==
    /\ pc' = [pc EXCEPT ![p] = "done"]
    /\ result' = [result EXCEPT ![p] = r]
    /\ events' = [events EXCEPT ![p] = @ \o evs \o <<r.kind>>]
    /\ UNCHANGED clients

\* Faulty variant: the cost is estimated on a client of its own.
ClientOf_OwnForCost(call) == IF call = "getCost" THEN "another client" ELSE clientMain

\* The client a native call is given: this.clientMain (lines 119-144 and 179
\* as executeQuery's `client`, 208, 211, 261, 282, 300), and for the balance
\* query of collect() the constructor's own argument (line 106).
ClientOf(call) == IF call = "collect.execute" THEN ClientArgument ELSE clientMain

\* The invocation suspends on the native call `call`.
Await(p, evs, call) ==
    /\ pc' = [pc EXCEPT ![p] = call]
    /\ events' = [events EXCEPT ![p] = @ \o evs \o <<call>>]
    /\ clients' = [clients EXCEPT ![p] = Append(@, ClientOf(call))]
    /\ UNCHANGED result

\* ---------------------------------------------------------- executeQuery

\* query._queryPayment as read after execute settled: the payment set on the
\* query, or what the SDK assessed and stored while executing when none was set.
PaymentAfterExecute(q, assessed) == IF q.payment # None THEN q.payment ELSE assessed

\* What the SDK may have assessed for q while executing it.
Assessments(q) == IF q.payment # None THEN {None} ELSE Payments

\* The status label of the observation in executeQuery's catch: e.status.
QueryFailureLabel(e) == e.status

\* The cost of the observation in executeQuery's catch: query._queryPayment.
QueryFailureCost(q) == q.payment

\* Faulty variant: the success observation is made without the payment.
QuerySuccessCost_Unset(q) == None

\* The cost of the observation on success: query._queryPayment.
QuerySuccessCost(q) == q.payment

\* The captureMetrics calls made when query.execute resolved: the one of the try
\* block and, when that one throws, the one of the catch block it lands in.
QueryMetricsCalls(q) ==
    IF fault = "none"
    THEN <<MetricsCall(queryMode, q.type, Some(StatusSuccess), QuerySuccessCost(q))>>
    ELSE <<MetricsCall(queryMode, q.type, Some(StatusSuccess), QuerySuccessCost(q)),
           MetricsCall(queryMode, q.type, QueryFailureLabel(RecorderError), QueryFailureCost(q))>>

\* What executeQuery hands back for the response resp of query.execute.
QueryReturn(resp) == resp

\* executeQuery(query, client) up to `await query.execute(client)`.
executeQuery(p) ==
    /\ CanCall(p)
    /\ \E q \in [type : QueryTypes, payment : Payments] :
        /\ op' = [op EXCEPT ![p] = "executeQuery"]
        /\ query' = [query EXCEPT ![p] = q]
    /\ Await(p, <<>>, "query.execute")
    /\ NoMetrics
    /\ UNCHANGED <<name, response, settled, locals, metricsEnv, evaluation, clientMain>>

\* query.execute resolved: the try block of executeQuery after the await.
executeQuery_resolved(p) ==
    /\ pc[p] = "query.execute"
    /\ op[p] # "getTinyBarGasFee"
    /\ \E resp \in Responses, assessed \in Assessments(query[p]) :
        LET q == [query[p] EXCEPT !.payment = PaymentAfterExecute(query[p], assessed)] IN
        /\ query' = [query EXCEPT ![p] = q]
        /\ settled' = [settled EXCEPT ![p] = Resolved("query.execute", resp)]
        /\ captureMetricsCalls(p, QueryMetricsCalls(q))
        /\ Settle(p, Observes(Len(QueryMetricsCalls(q))), AfterMetrics(Return(QueryReturn(resp))))
    /\ UNCHANGED <<op, name, response, locals, metricsEnv, evaluation, clientMain>>

\* Faulty variant: a rejected query is executed again.
executeQuery_rejected_Retry(p) ==
    /\ pc[p] = "query.execute"
    /\ \E e \in NativeErrors :
        settled' = [settled EXCEPT ![p] = Rejected("query.execute", e)]
    /\ Await(p, <<>>, "query.execute")
    /\ NoMetrics
    /\ UNCHANGED <<op, query, name, response, locals, metricsEnv, evaluation, clientMain>>

\* query.execute rejected: the catch block of executeQuery.
executeQuery_rejected(p) ==
    /\ pc[p] = "query.execute"
    /\ \E e \in NativeErrors, assessed \in Assessments(query[p]) :
        LET q == [query[p] EXCEPT !.payment = PaymentAfterExecute(query[p], assessed)] IN
        /\ query' = [query EXCEPT ![p] = q]
        /\ settled' = [settled EXCEPT ![p] = Rejected("query.execute", e)]
        /\ captureMetrics(p, queryMode, q.type, QueryFailureLabel(e), QueryFailureCost(q))
        /\ Settle(p, Observes(1), AfterMetrics(Raise(Normalize(e))))
    /\ UNCHANGED <<op, name, response, locals, metricsEnv, evaluation, clientMain>>

\* ---------------------------------------------------- executeTransaction

\* The operations that run executeTransaction.
TransactionOps == {"submitEthereumTransaction", "executeAndGetTransactionReceipt"}

\* submitEthereumTransaction(transactionBuffer): executeTransaction of a new
\* EthereumTransaction, up to `await transaction.execute(this.clientMain)`.
submitEthereumTransaction(p) ==
    /\ CanCall(p)
    /\ name' = [name EXCEPT ![p] = "EthereumTransaction"]
    /\ op' = [op EXCEPT ![p] = "submitEthereumTransaction"]
    /\ Await(p, <<>>, "transaction.execute")
    /\ NoMetrics
    /\ UNCHANGED <<query, response, settled, locals, metricsEnv, evaluation, clientMain>>

\* executeAndGetTransactionReceipt(transaction) up to the await inside the
\* executeTransaction it calls.
executeAndGetTransactionReceipt(p) ==
    /\ CanCall(p)
    /\ name' = [name EXCEPT ![p] = "EthereumTransaction"]
    /\ op' = [op EXCEPT ![p] = "executeAndGetTransactionReceipt"]
    /\ Await(p, <<>>, "transaction.execute")
    /\ NoMetrics
    /\ UNCHANGED <<query, response, settled, locals, metricsEnv, evaluation, clientMain>>

\* Faulty variant: the catch block of executeTransaction records an observation, as
\* the one of executeGetTransactionRecord does.
TransactionMetrics_Metered(p, e) ==
    captureMetrics(p, transactionMode, name[p], e.status, Some(0))

\* The metrics executeTransaction's catch block records for the rejection e: none.
TransactionMetrics(p, e) == NoMetrics

\* Faulty variant: the catch block rethrows what it caught.
TransactionError_Raw(e) == e

\* The error executeTransaction's catch block throws for the rejection e.
TransactionError(e) == Normalize(e)

\* Faulty variant: the catch block re-wraps whatever it caught.
ReceiptCatch_Rewrapped(e) == NewError(e.message)

\* The error executeAndGetTransactionReceipt's catch block throws for what
\* `await this.executeTransaction(transaction)` threw.
ReceiptCatch(e) == Normalize(e)

\* The error the caller gets when the promise of resp.getReceipt rejects with e:
\* the promise is returned without await, so the catch block never sees e.
ReceiptStageError(e) == e

\* transaction.execute resolved: executeTransaction returns resp; inside
\* executeAndGetTransactionReceipt the code goes on to resp.getReceipt.
executeTransaction_resolved(p) ==
    /\ pc[p] = "transaction.execute"
    /\ \E resp \in Responses :
        \/ /\ op[p] # "executeAndGetTransactionReceipt"
           /\ settled' = [settled EXCEPT ![p] = Resolved("transaction.execute", resp)]
           /\ Settle(p, <<>>, Return(resp))
        \/ /\ op[p] = "executeAndGetTransactionReceipt"
           /\ Await(p, <<>>, "getReceipt")
           /\ UNCHANGED settled
    /\ NoMetrics
    /\ UNCHANGED <<op, query, name, response, locals, metricsEnv, evaluation, clientMain>>

\* transaction.execute rejected: the catch block of executeTransaction, then,
\* inside executeAndGetTransactionReceipt, its catch block.
executeTransaction_rejected(p) ==
    /\ pc[p] = "transaction.execute"
    /\ \E e \in NativeErrors :
        /\ settled' = [settled EXCEPT ![p] = Rejected("transaction.execute", e)]
        /\ TransactionMetrics(p, e)
        /\ \/ /\ op[p] # "executeAndGetTransactionReceipt"
              /\ Settle(p, <<>>, Raise(TransactionError(e)))
           \/ /\ op[p] = "executeAndGetTransactionReceipt"
              /\ Settle(p, <<>>, Raise(ReceiptCatch(TransactionError(e))))
    /\ UNCHANGED <<op, query, name, response, locals, metricsEnv, evaluation, clientMain>>

\* The promise of resp.getReceipt(this.clientMain) resolved.
getReceipt_resolved(p) ==
    /\ pc[p] = "getReceipt"
    /\ \E receipt \in Responses :
        /\ settled' = [settled EXCEPT ![p] = Resolved("getReceipt", receipt)]
        /\ Settle(p, <<>>, Return(receipt))
    /\ NoMetrics
    /\ UNCHANGED <<op, query, name, response, locals, metricsEnv, evaluation, clientMain>>

\* Faulty variant: a receipt that cannot be retrieved is returned as undefined.
getReceipt_rejected_Masked(p) ==
    /\ pc[p] = "getReceipt"
    /\ \E e \in NativeErrors :
        /\ settled' = [settled EXCEPT ![p] = Rejected("getReceipt", e)]
        /\ Settle(p, <<>>, Return(None))
    /\ NoMetrics
    /\ UNCHANGED <<op, query, name, response, locals, metricsEnv, evaluation, clientMain>>

\* The promise of resp.getReceipt(this.clientMain) rejected.
getReceipt_rejected(p) ==
    /\ pc[p] = "getReceipt"
    /\ \E e \in NativeErrors :
        /\ settled' = [settled EXCEPT ![p] = Rejected("getReceipt", e)]
        /\ Settle(p, <<>>, Raise(ReceiptStageError(e)))
    /\ NoMetrics
    /\ UNCHANGED <<op, query, name, response, locals, metricsEnv, evaluation, clientMain>>

\* ------------------------------------------- executeGetTransactionRecord

\* Faulty variant: the label is the success status, as in executeQuery.
RecordStatusLabel_Success(rec) == Some(StatusSuccess)

\* The status label of the observation of a retrieved record.
RecordStatusLabel(rec) == Some(rec.status)

\* The cost of the observation of a retrieved record: its transactionFee.
RecordCost(rec) == Some(rec.fee)

\* Faulty variant: the catch block records and re-wraps whatever it caught.
executeGetTransactionRecord_catch_Metered(p, transactionName, e) ==
    /\ captureMetrics(p, transactionMode, transactionName, e.status, Some(0))
    /\ Settle(p, Observes(1), AfterMetrics(Raise(NewError(e.message))))

\* The catch block of executeGetTransactionRecord for the error e thrown in
\* its try block.
executeGetTransactionRecord_catch(p, transactionName, e) ==
    IF HasStatusCode(e)
    THEN /\ captureMetrics(p, transactionMode, transactionName, e.status, Some(0))
         /\ Settle(p, Observes(1), AfterMetrics(Raise(NewError(e.message))))
    ELSE /\ NoMetrics
         /\ Settle(p, <<>>, Raise(e))

\* executeGetTransactionRecord(resp, transactionName) up to
\* `await resp.getRecord(this.clientMain)`; a resp without getRecord throws
\* at once, into the catch block.
executeGetTransactionRecord(p) ==
    /\ CanCall(p)
    /\ op' = [op EXCEPT ![p] = "executeGetTransactionRecord"]
    /\ \E t \in TransactionNames, hasGetRecord \in BOOLEAN :
        /\ name' = [name EXCEPT ![p] = t]
        /\ response' = [response EXCEPT ![p] = hasGetRecord]
        /\ \/ /\ ~hasGetRecord
              /\ executeGetTransactionRecord_catch(p, t, NewError(InvalidResponseFormat))
           \/ /\ hasGetRecord
              /\ Await(p, <<>>, "getRecord")
              /\ NoMetrics
    /\ UNCHANGED <<query, settled, locals, metricsEnv, evaluation, clientMain>>

\* resp.getRecord resolved: the rest of the try block.
getRecord_resolved(p) ==
    /\ pc[p] = "getRecord"
    /\ \E rec \in Records :
        /\ settled' = [settled EXCEPT ![p] = Resolved("getRecord", rec)]
        /\ captureMetrics(p, transactionMode, name[p], RecordStatusLabel(rec), RecordCost(rec))
        /\ Settle(p, Observes(1), AfterMetrics(Return(rec)))
    /\ UNCHANGED <<op, query, name, response, locals, metricsEnv, evaluation, clientMain>>

\* Faulty variant: the catch block only normalizes, as executeTransaction's does.
getRecord_rejected_Unmetered(p) ==
    /\ pc[p] = "getRecord"
    /\ \E e \in NativeErrors :
        /\ settled' = [settled EXCEPT ![p] = Rejected("getRecord", e)]
        /\ Settle(p, <<>>, Raise(Normalize(e)))
    /\ NoMetrics
    /\ UNCHANGED <<op, query, name, response, locals, metricsEnv, evaluation, clientMain>>

\* resp.getRecord rejected: the catch block.
getRecord_rejected(p) ==
    /\ pc[p] = "getRecord"
    /\ \E e \in NativeErrors :
        /\ settled' = [settled EXCEPT ![p] = Rejected("getRecord", e)]
        /\ executeGetTransactionRecord_catch(p, name[p], e)
    /\ UNCHANGED <<op, query, name, response, locals, metricsEnv, evaluation, clientMain>>

\* ----------------------------------------------- submitContractCallQuery

\* A JS string is the sequence of its characters.
Repeat(c, n) == [i \in 1..n |-> c]

\* String.prototype.startsWith
startsWith(s, prefix) == Len(s) >= Len(prefix) /\ SubSeq(s, 1, Len(prefix)) = prefix

\* String.prototype.substring(start)
substring(s, start) == SubSeq(s, start + 1, Len(s))

\* The literal '0x'.
HexPrefix == <<"0", "x">>

\* prepend0x(input)
prepend0x(input) == IF startsWith(input, HexPrefix) THEN input ELSE HexPrefix \o input

\* Faulty variant: only the first character of the prefix is removed.
prune0x_OneCharacter(input) == IF startsWith(input, HexPrefix) THEN substring(input, 1) ELSE input

\* prune0x(input)
prune0x(input) == IF startsWith(input, HexPrefix) THEN substring(input, 2) ELSE input

\* The literal "00000000000" of line 194.
LongZeroPrefix == Repeat("0", 11)

\* Faulty variant: the test is made on the address as supplied.
ContractIdOf_Unpruned(to) ==
    IF startsWith(to, LongZeroPrefix)
    THEN [from |-> "fromSolidityAddress", address |-> prune0x(to)]
    ELSE [from |-> "fromEvmAddress", shard |-> 0, realm |-> 0, address |-> prune0x(to)]

\* const contractId = contract.startsWith("00000000000") ? ... : ..., where
\* contract = prune0x(to).
ContractIdOf(to) ==
    IF startsWith(prune0x(to), LongZeroPrefix)
    THEN [from |-> "fromSolidityAddress", address |-> prune0x(to)]
    ELSE [from |-> "fromEvmAddress", shard |-> 0, realm |-> 0, address |-> prune0x(to)]

\* The to-addresses callers pass: the long-zero address of contract 0.0.1 with
\* its 0x, and a 20-byte EVM address without.
ToAddresses == {HexPrefix \o Repeat("0", 39) \o <<"1">>, Repeat("a", 40)}

\* Faulty variant: the estimated cost is not set on the query.
setQueryPayment_Omitted(q, c) == q

\* contractCallQuery.setQueryPayment(cost)
setQueryPayment(q, c) == [q EXCEPT !.payment = Some(c)]

\* submitContractCallQuery(to, data, gas) up to
\* `await contractCallQuery.getCost(this.clientMain)`.
submitContractCallQuery(p) ==
    /\ CanCall(p)
    /\ op' = [op EXCEPT ![p] = "submitContractCallQuery"]
    /\ query' = [query EXCEPT ![p] = [type |-> "ContractCallQuery", payment |-> None]]
    /\ \E to \in ToAddresses :
        contractId' = [contractId EXCEPT ![p] = Some(ContractIdOf(to))]
    /\ UNCHANGED estimatedCost
    /\ Await(p, <<>>, "getCost")
    /\ NoMetrics
    /\ UNCHANGED <<name, response, settled, feeSchedules, exchangeRates, metricsEnv, evaluation, clientMain>>

\* getCost resolved: setQueryPayment(cost), then executeQuery up to its await.
getCost_resolved(p) ==
    /\ pc[p] = "getCost"
    /\ \E c \in Costs :
        /\ estimatedCost' = [estimatedCost EXCEPT ![p] = Some(c)]
        /\ query' = [query EXCEPT ![p] = setQueryPayment(@, c)]
    /\ Await(p, <<>>, "query.execute")
    /\ NoMetrics
    /\ UNCHANGED <<op, name, response, settled, contractId, feeSchedules, exchangeRates, metricsEnv, evaluation, clientMain>>

\* getCost rejected: nothing catches it inside submitContractCallQuery.
getCost_rejected(p) ==
    /\ pc[p] = "getCost"
    /\ \E e \in NativeErrors :
        /\ settled' = [settled EXCEPT ![p] = Rejected("getCost", e)]
        /\ Settle(p, <<>>, Raise(e))
    /\ NoMetrics
    /\ UNCHANGED <<op, query, name, response, locals, metricsEnv, evaluation, clientMain>>

\* ------------------------------------------------- JS number arithmetic

\* A JS number is an IEEE 754 double.  A non-negative finite one is kept as
\* [m, e]: the bits of its significand as a natural number, lowest bit first
\* and highest bit 1 (<<>> for zero), and the exponent of its lowest bit; its
\* value is m * 2^e.
SignificandBits == 53

RECURSIVE Pow2(_)
Pow2(k) == IF k = 0 THEN 1 ELSE 2 * Pow2(k - 1)

RECURSIVE NatOf(_)
NatOf(bits) == IF bits = <<>> THEN 0 ELSE Head(bits) + 2 * NatOf(Tail(bits))

\* A bit sequence without its high zeros.
Normalized(bits) ==
    LET ones == {i \in DOMAIN bits : bits[i] = 1}
    IN  IF ones = {} THEN <<>>
        ELSE SubSeq(bits, 1, CHOOSE i \in ones : \A j \in ones : j <= i)

\* The bits of an integer below 2^31.
BitsOf(n) == Normalized([i \in 1..31 |-> (n \div Pow2(i - 1)) % 2])

\* Long multiplication on digits of LimbBits bits, so that no intermediate
\* sum leaves the 32-bit integers.
LimbBits == 14

LimbsOf(bits) ==
    [j \in 1..((Len(bits) + LimbBits - 1) \div LimbBits) |->
        NatOf(SubSeq(bits, LimbBits * (j - 1) + 1,
                     IF LimbBits * j < Len(bits) THEN LimbBits * j ELSE Len(bits)))]

RECURSIVE ColumnSum(_, _, _, _)
ColumnSum(a, b, k, i) ==
    IF i > Len(a) THEN 0
    ELSE (IF k - i + 1 \in DOMAIN b THEN a[i] * b[k - i + 1] ELSE 0) + ColumnSum(a, b, k, i + 1)

RECURSIVE Carried(_, _, _)
Carried(columns, k, carry) ==
    IF k > Len(columns) /\ carry = 0 THEN <<>>
    ELSE LET t == (IF k <= Len(columns) THEN columns[k] ELSE 0) + carry
         IN  <<t % Pow2(LimbBits)>> \o Carried(columns, k + 1, t \div Pow2(LimbBits))

BitsOfLimbs(limbs) ==
    Normalized([i \in 1..(LimbBits * Len(limbs)) |->
        (limbs[(i - 1) \div LimbBits + 1] \div Pow2((i - 1) % LimbBits)) % 2])

\* The product of two natural numbers given by their bits.
MulBits(a, b) ==
    IF a = <<>> \/ b = <<>> THEN <<>>
    ELSE LET la == LimbsOf(a)
             lb == LimbsOf(b)
         IN  BitsOfLimbs(Carried([k \in 1..(Len(la) + Len(lb) - 1) |-> ColumnSum(la, lb, k, 1)], 1, 0))

\* bits + 1
Incremented(bits) ==
    LET zeros == {i \in DOMAIN bits : bits[i] = 0}
    IN  IF zeros = {} THEN [i \in 1..(Len(bits) + 1) |-> IF i = Len(bits) + 1 THEN 1 ELSE 0]
        ELSE LET z == CHOOSE i \in zeros : \A j \in zeros : i <= j
             IN  [i \in DOMAIN bits |-> IF i < z THEN 0 ELSE IF i = z THEN 1 ELSE bits[i]]

\* Round to nearest, ties to even: the double nearest to bits * 2^e, where
\* `inexact` tells that the exact value lies above bits * 2^e by less than 2^e.
RoundToDouble(bits, e, inexact) ==
    IF Len(bits) <= SignificandBits THEN [m |-> bits, e |-> e]
    ELSE LET d == Len(bits) - SignificandBits
             kept == SubSeq(bits, d + 1, Len(bits))
             below == inexact \/ \E i \in 1..(d - 1) : bits[i] = 1
             up == bits[d] = 1 /\ (below \/ kept[1] = 1)
             r == IF up THEN Incremented(kept) ELSE kept
         IN  IF Len(r) > SignificandBits
             THEN [m |-> Tail(r), e |-> e + d + 1]
             ELSE [m |-> r, e |-> e + d]

\* The quotient bits of a long division: acc holds the bits found so far and
\* e the exponent of the lowest, r < b is the remainder.  One more bit than
\* the significand holds is produced, unless the division comes out even.
RECURSIVE DivBits(_, _, _, _)
DivBits(acc, e, r, b) ==
    IF r = 0 \/ Len(acc) > SignificandBits
    THEN RoundToDouble(acc, e, r # 0)
    ELSE LET bit == IF 2 * r >= b THEN 1 ELSE 0
         IN  DivBits(IF acc = <<>> /\ bit = 0 THEN <<>> ELSE <<bit>> \o acc,
                     e - 1, 2 * r - bit * b, b)

\* x / y for two integers that doubles hold exactly, y > 0.
NumberDiv(x, y) == DivBits(BitsOf(x \div y), 0, x % y, y)

\* x * y of two doubles.
NumberMul(x, y) == RoundToDouble(MulBits(x.m, y.m), x.e + y.e, FALSE)

\* Math.ceil(x), as an integer.
MathCeil(x) ==
    IF x.m = <<>> THEN 0
    ELSE IF x.e >= 0 THEN NatOf(x.m) * Pow2(x.e)
    ELSE IF -x.e >= Len(x.m) THEN 1
    ELSE NatOf(SubSeq(x.m, 1 - x.e, Len(x.m)))
            + (IF \E i \in 1..(-x.e) : x.m[i] = 1 THEN 1 ELSE 0)

\* ------------------------------------------ convertGasPriceToTinyBars

\* constants.DEFAULT_TINY_BAR_GAS: a number fixed in the constants module,
\* kept by name.
DEFAULT_TINY_BAR_GAS == "constants.DEFAULT_TINY_BAR_GAS"

\* rates.currentRate
RateApplied(rates) == rates.currentRate

\* convertGasPriceToTinyBars(feeComponents, exchangeRates)
convertGasPriceToTinyBars(feeComponents, rates) ==
    IF feeComponents = None \/ feeComponents[1].contractTransactionGas = None
    THEN DEFAULT_TINY_BAR_GAS
    ELSE MathCeil(NumberMul(NumberDiv(feeComponents[1].contractTransactionGas[1], 1000),
                            NumberDiv(RateApplied(rates).hbars,
                                      RateApplied(rates).cents)))

\* ------------------------------------------------------ getTinyBarGasFee

\* The file addresses and the functionality code of the constants module,
\* kept by name.
FEE_SCHEDULE_FILE_ID == "constants.FEE_SCHEDULE_FILE_ID"
EXCHANGE_RATE_FILE_ID == "constants.EXCHANGE_RATE_FILE_ID"
ETH_FUNCTIONALITY_CODE == "constants.ETH_FUNCTIONALITY_CODE"

\* new FileContentsQuery().setFileId(address)
FileContentsQuery(address) == [type |-> "FileContentsQuery", payment |-> None, fileId |-> address]

\* File contents that fromBytes cannot decode, and what it throws then.
Malformed == [malformed |-> TRUE]
DecodeError == NewError("index out of range")

\* FeeComponents | undefined, with contractTransactionGas a Long or undefined.
FeeComponentsValues ==
    {None} \cup {Some([contractTransactionGas |-> g]) : g \in {None, Some(21000)}}

\* schedule.fees: undefined, or an array of FeeData that may be empty.
FeesValues ==
    {None, Some(<<>>)} \cup {Some(<<[servicedata |-> fc]>>) : fc \in FeeComponentsValues}

\* A TransactionFeeSchedule: its hederaFunctionality code, if any, and its fees.
TransactionFeeSchedules ==
    [hederaFunctionality : {None, Some(ETH_FUNCTIONALITY_CODE), Some("CryptoTransfer")},
     fees : FeesValues]

\* The sequences of at most n elements of S.
RECURSIVE SeqsUpTo(_, _)
SeqsUpTo(S, n) ==
    IF n = 0 THEN {<<>>}
    ELSE SeqsUpTo(S, n - 1) \cup {Append(s, x) : s \in SeqsUpTo(S, n - 1), x \in S}

\* What FeeSchedules.fromBytes yields: no current schedule, a current schedule
\* without a table, or one with a table of up to MaxEntries entries.
FeeSchedulesValues ==
    {[current |-> None], [current |-> Some([transactionFeeSchedule |-> None])]}
    \cup {[current |-> Some([transactionFeeSchedule |-> Some(t)])] :
            t \in SeqsUpTo(TransactionFeeSchedules, MaxEntries)}

\* What ExchangeRates.fromBytes yields.
ExchangeRateValues == {[hbars |-> 1, cents |-> 12], [hbars |-> 9, cents |-> 7]}
ExchangeRatesValues == [currentRate : ExchangeRateValues, nextRate : ExchangeRateValues]

InvalidFeeSchedules == "Invalid FeeSchedules proto format"
CodeNotFound == "${constants.ETH_FUNCTIONALITY_CODE} code not found in feeSchedule"
\* schedule.fees[0].servicedata on an empty fees array.
UndefinedFeeData == NewError("Cannot read properties of undefined (reading 'servicedata')")

\* Faulty variant: an entry matches by its code alone.
Matches_CodeOnly(schedule) == schedule.hederaFunctionality = Some(ETH_FUNCTIONALITY_CODE)

\* schedule.hederaFunctionality?._code === constants.ETH_FUNCTIONALITY_CODE
\*     && schedule.fees !== undefined
Matches(schedule) ==
    /\ schedule.hederaFunctionality = Some(ETH_FUNCTIONALITY_CODE)
    /\ schedule.fees # None

\* _.isNil(feeSchedules.current) || feeSchedules.current?.transactionFeeSchedule === undefined
InvalidFormat(parsed) ==
    parsed.current = None \/ parsed.current[1].transactionFeeSchedule = None

\* The entries the for loop of a well-formed schedule stops at.
MatchingEntries(parsed) ==
    IF InvalidFormat(parsed) THEN {}
    ELSE {i \in DOMAIN parsed.current[1].transactionFeeSchedule[1] :
            Matches(parsed.current[1].transactionFeeSchedule[1][i])}

\* The entry the for loop stops at: the first that matches.
FirstMatch(parsed) ==
    parsed.current[1].transactionFeeSchedule[1][
        CHOOSE i \in MatchingEntries(parsed) : \A j \in MatchingEntries(parsed) : i <= j]

\* Faulty variant: the schedule's format is not checked.
AfterFeeSchedule_Unchecked(bytes) ==
    IF bytes = Malformed THEN Raise(DecodeError)
    ELSE IF MatchingEntries(bytes) = {} THEN Raise(NewError(CodeNotFound))
    ELSE [kind |-> "continue", value |-> None, error |-> None]

\* Faulty variant: a schedule without a matching entry yields the default price.
AfterFeeSchedule_Defaulted(bytes) ==
    IF bytes = Malformed THEN Raise(DecodeError)
    ELSE IF InvalidFormat(bytes) THEN Raise(NewError(InvalidFeeSchedules))
    ELSE IF MatchingEntries(bytes) = {} THEN Return(DEFAULT_TINY_BAR_GAS)
    ELSE [kind |-> "continue", value |-> None, error |-> None]

\* Lines 160-174 once the fee schedule file was read: what getTinyBarGasFee
\* raises, or "continue" when it goes on to read the exchange rate file.
AfterFeeSchedule(bytes) ==
    IF bytes = Malformed THEN Raise(DecodeError)
    ELSE IF InvalidFormat(bytes) THEN Raise(NewError(InvalidFeeSchedules))
    ELSE IF MatchingEntries(bytes) = {} THEN Raise(NewError(CodeNotFound))
    ELSE [kind |-> "continue", value |-> None, error |-> None]

\* Lines 168-170 once the exchange rate file was read.
AfterExchangeRate(parsed, bytes) ==
    IF bytes = Malformed THEN Raise(DecodeError)
    ELSE IF FirstMatch(parsed).fees[1] = <<>> THEN Raise(UndefinedFeeData)
    ELSE Return(convertGasPriceToTinyBars(FirstMatch(parsed).fees[1][1].servicedata, bytes))

\* getTinyBarGasFee() up to the await of query.execute inside
\* getFeeSchedule -> getFileIdBytes -> executeQuery.
getTinyBarGasFee(p) ==
    /\ CanCall(p)
    /\ op' = [op EXCEPT ![p] = "getTinyBarGasFee"]
    /\ query' = [query EXCEPT ![p] = FileContentsQuery(FEE_SCHEDULE_FILE_ID)]
    /\ Await(p, <<>>, "query.execute")
    /\ NoMetrics
    /\ UNCHANGED <<name, response, settled, locals, metricsEnv, evaluation, clientMain>>

\* The read of the fee schedule file resolved: the try block of executeQuery,
\* FeeSchedules.fromBytes, then lines 161-174, up to the await of query.execute
\* inside getExchangeRate if an entry matches.
getFeeSchedule_resolved(p) ==
    /\ pc[p] = "query.execute"
    /\ op[p] = "getTinyBarGasFee"
    /\ query[p].fileId = FEE_SCHEDULE_FILE_ID
    /\ \E bytes \in FeeSchedulesValues \cup {Malformed}, assessed \in Assessments(query[p]) :
        LET q == [query[p] EXCEPT !.payment = PaymentAfterExecute(query[p], assessed)] IN
        /\ captureMetricsCalls(p, QueryMetricsCalls(q))
        /\ IF fault # "none" \/ AfterFeeSchedule(bytes).kind # "continue"
           THEN /\ query' = [query EXCEPT ![p] = q]
                /\ settled' = [settled EXCEPT ![p] = Resolved("query.execute", bytes)]
                /\ feeSchedules' = [feeSchedules EXCEPT ![p] =
                        IF fault # "none" \/ bytes = Malformed THEN None ELSE Some(bytes)]
                /\ Settle(p, Observes(Len(QueryMetricsCalls(q))), AfterMetrics(AfterFeeSchedule(bytes)))
           ELSE /\ query' = [query EXCEPT ![p] = FileContentsQuery(EXCHANGE_RATE_FILE_ID)]
                /\ feeSchedules' = [feeSchedules EXCEPT ![p] = Some(bytes)]
                /\ Await(p, Observes(1), "query.execute")
                /\ UNCHANGED settled
    /\ UNCHANGED <<op, name, response, estimatedCost, contractId, exchangeRates, metricsEnv, evaluation, clientMain>>

\* The read of the exchange rate file resolved: the try block of executeQuery,
\* ExchangeRates.fromBytes, then line 170.
getExchangeRate_resolved(p) ==
    /\ pc[p] = "query.execute"
    /\ op[p] = "getTinyBarGasFee"
    /\ query[p].fileId = EXCHANGE_RATE_FILE_ID
    /\ \E bytes \in ExchangeRatesValues \cup {Malformed}, assessed \in Assessments(query[p]) :
        LET q == [query[p] EXCEPT !.payment = PaymentAfterExecute(query[p], assessed)] IN
        /\ captureMetricsCalls(p, QueryMetricsCalls(q))
        /\ query' = [query EXCEPT ![p] = q]
        /\ settled' = [settled EXCEPT ![p] = Resolved("query.execute", bytes)]
        /\ exchangeRates' = [exchangeRates EXCEPT ![p] =
                IF fault # "none" \/ bytes = Malformed THEN None ELSE Some(bytes)]
        /\ Settle(p, Observes(Len(QueryMetricsCalls(q))),
                  AfterMetrics(AfterExchangeRate(feeSchedules[p][1], bytes)))
    /\ UNCHANGED <<op, name, response, estimatedCost, contractId, feeSchedules, metricsEnv, evaluation, clientMain>>

\* ----------------------------------- balances in weibars (BigNumber)

\* A BigNumber that is a non-negative integer: the sequence of its decimal
\* digits, lowest first and without leading zeros (<<>> is 0).  Decimal
\* writes one from its digits as they are read.
Decimal(ds) == [i \in 1..Len(ds) |-> ds[Len(ds) + 1 - i]]

\* constants.TINYBAR_TO_WEIBAR_COEF: the weibars of one tinybar, 10^10.
TINYBAR_TO_WEIBAR_COEF == Decimal(<<1, 0, 0, 0, 0, 0, 0, 0, 0, 0, 0>>)

\* What AccountBalance.hbars may hold, in tinybars: 0, 1, 2, 9, 10, 99,
\* 500000000, 2^31, 2^32, 2^53 - 1, 2^53, 2^53 + 1, 10^18, 5 * 10^18 (every
\* hbar there is), 2^63 - 1 and 2^63.
BalanceValues ==
    {Decimal(<<>>),
     Decimal(<<1>>),
     Decimal(<<2>>),
     Decimal(<<9>>),
     Decimal(<<1, 0>>),
     Decimal(<<9, 9>>),
     Decimal(<<5, 0, 0, 0, 0, 0, 0, 0, 0>>),
     Decimal(<<2, 1, 4, 7, 4, 8, 3, 6, 4, 8>>),
     Decimal(<<4, 2, 9, 4, 9, 6, 7, 2, 9, 6>>),
     Decimal(<<9, 0, 0, 7, 1, 9, 9, 2, 5, 4, 7, 4, 0, 9, 9, 1>>),
     Decimal(<<9, 0, 0, 7, 1, 9, 9, 2, 5, 4, 7, 4, 0, 9, 9, 2>>),
     Decimal(<<9, 0, 0, 7, 1, 9, 9, 2, 5, 4, 7, 4, 0, 9, 9, 3>>),
     Decimal(<<1, 0, 0, 0, 0, 0, 0, 0, 0, 0, 0, 0, 0, 0, 0, 0, 0, 0, 0>>),
     Decimal(<<5, 0, 0, 0, 0, 0, 0, 0, 0, 0, 0, 0, 0, 0, 0, 0, 0, 0, 0>>),
     Decimal(<<9, 2, 2, 3, 3, 7, 2, 0, 3, 6, 8, 5, 4, 7, 7, 5, 8, 0, 7>>),
     Decimal(<<9, 2, 2, 3, 3, 7, 2, 0, 3, 6, 8, 5, 4, 7, 7, 5, 8, 0, 8>>)}

\* The sum of x[i] * y[k + 1 - i] over the i from `from` on: column k of the
\* long multiplication of x and y.
RECURSIVE DigitColumn(_, _, _, _)
DigitColumn(x, y, k, from) ==
    IF from > Len(x) \/ from > k THEN 0
    ELSE (IF k + 1 - from <= Len(y) THEN x[from] * y[k + 1 - from] ELSE 0)
         + DigitColumn(x, y, k, from + 1)

\* The digits of the number whose columns are cols, from column k on, with
\* the carry coming into column k.
RECURSIVE DigitsCarried(_, _, _)
DigitsCarried(cols, k, carry) ==
    IF k > Len(cols)
    THEN (IF carry = 0 THEN <<>> ELSE <<carry % 10>> \o DigitsCarried(cols, k, carry \div 10))
    ELSE <<(cols[k] + carry) % 10>> \o DigitsCarried(cols, k + 1, (cols[k] + carry) \div 10)

\* Without its leading zeros.
RECURSIVE Stripped(_)
Stripped(x) == IF x # <<>> /\ x[Len(x)] = 0 THEN Stripped(SubSeq(x, 1, Len(x) - 1)) ELSE x

\* BigNumber.prototype.multipliedBy on two integers: the exact product.
multipliedBy(x, y) ==
    IF x = <<>> \/ y = <<>> THEN <<>>
    ELSE Stripped(DigitsCarried([k \in 1..(Len(x) + Len(y) - 1) |-> DigitColumn(x, y, k, 1)], 1, 0))

\* Hbar.to(HbarUnit.Tinybar): an Hbar holds its amount in tinybars as a
\* BigNumber, and hands it out divided by the tinybars of the unit, 1.
toTinybarUnit(hbars) == hbars

\* Faulty variant: the balance goes through a number, which keeps 15 digits.
HbarToWeiBar_ThroughNumber(balance) ==
    multipliedBy([i \in 1..Len(balance) |-> IF i > Len(balance) - 15 THEN balance[i] ELSE 0],
                 TINYBAR_TO_WEIBAR_COEF)

\* HbarToWeiBar(balance)
HbarToWeiBar(balance) == multipliedBy(toTinybarUnit(balance), TINYBAR_TO_WEIBAR_COEF)

BalanceInWeiBarOps == {"getAccountBalanceInWeiBar", "getContractBalanceInWeiBar"}

\* getAccountBalanceInWeiBar(account) up to the await of query.execute
\* inside getAccountBalance -> executeQuery.
getAccountBalanceInWeiBar(p) ==
    /\ CanCall(p)
    /\ op' = [op EXCEPT ![p] = "getAccountBalanceInWeiBar"]
    /\ query' = [query EXCEPT ![p] = [type |-> "AccountBalanceQuery", payment |-> None]]
    /\ Await(p, <<>>, "query.execute")
    /\ NoMetrics
    /\ UNCHANGED <<name, response, settled, locals, metricsEnv, evaluation, clientMain>>

\* getContractBalanceInWeiBar(account) up to the await of query.execute
\* inside getContractBalance -> executeQuery.
getContractBalanceInWeiBar(p) ==
    /\ CanCall(p)
    /\ op' = [op EXCEPT ![p] = "getContractBalanceInWeiBar"]
    /\ query' = [query EXCEPT ![p] = [type |-> "AccountBalanceQuery", payment |-> None]]
    /\ Await(p, <<>>, "query.execute")
    /\ NoMetrics
    /\ UNCHANGED <<name, response, settled, locals, metricsEnv, evaluation, clientMain>>

\* The balance query resolved: the try block of executeQuery, then
\* HbarToWeiBar on the balance it returned.
getBalance_resolved(p) ==
    /\ pc[p] = "query.execute"
    /\ op[p] \in BalanceInWeiBarOps
    /\ \E balance \in BalanceValues, assessed \in Assessments(query[p]) :
        LET q == [query[p] EXCEPT !.payment = PaymentAfterExecute(query[p], assessed)] IN
        /\ query' = [query EXCEPT ![p] = q]
        /\ settled' = [settled EXCEPT ![p] = Resolved("query.execute", balance)]
        /\ captureMetricsCalls(p, QueryMetricsCalls(q))
        /\ Settle(p, Observes(Len(QueryMetricsCalls(q))), AfterMetrics(Return(HbarToWeiBar(balance))))
    /\ UNCHANGED <<op, name, response, locals, metricsEnv, evaluation, clientMain>>

\* ------------------------------------------------------ helper functions

\* Everything but the evaluation of a helper function.
adapter == <<op, pc, query, name, response, result, settled, events, observed,
             histogram, gaugeDecs, locals, metricsEnv, clientMain, clients>>

\* The gas components and rates convertGasPriceToTinyBars is evaluated on.
Gases == {1000 * k : k \in 0..MaxKiloGas} \cup {853000}
RateValues == [hbars : 0..MaxHbars, cents : 1..MaxCents]

GasPriceCalls ==
    [fn : {"convertGasPriceToTinyBars"},
     feeComponents : {Some([contractTransactionGas |-> Some(g)]) : g \in Gases},
     exchangeRates : [currentRate : RateValues, nextRate : ExchangeRateValues]]

\* One evaluation of convertGasPriceToTinyBars(feeComponents, exchangeRates).
evaluate_convertGasPriceToTinyBars ==
    /\ arg # None
    /\ ret = None
    /\ arg[1].fn = "convertGasPriceToTinyBars"
    /\ ret' = Some(convertGasPriceToTinyBars(arg[1].feeComponents, arg[1].exchangeRates))
    /\ UNCHANGED <<adapter, arg>>

\* The strings prepend0x and prune0x are evaluated on.
HexChars == {"0", "x", "a"}
HexCalls == [fn : {"prepend0x, prune0x"}, input : SeqsUpTo(HexChars, MaxLen)]

\* The evaluations of prepend0x and prune0x on one input, alone and composed.
evaluate_prepend0x_prune0x ==
    /\ arg # None
    /\ ret = None
    /\ arg[1].fn = "prepend0x, prune0x"
    /\ ret' = Some([prepend0x |-> prepend0x(arg[1].input),
                    prune0x |-> prune0x(arg[1].input),
                    prepend0x_prune0x |-> prepend0x(prune0x(arg[1].input)),
                    prune0x_prepend0x |-> prune0x(prepend0x(arg[1].input))])
    /\ UNCHANGED <<adapter, arg>>

\* The to-addresses the contract id is built from: none, one or two '0x', a
\* run of zeros, and what follows it.
ToStrings ==
    ToAddresses \cup
    {pre \o Repeat("0", k) \o rest :
        pre \in {<<>>, HexPrefix, HexPrefix \o HexPrefix},
        k \in 0..MaxZeros,
        rest \in {<<>>, <<"1">>, <<"a", "b">>}}
ContractIdCalls == [fn : {"ContractIdOf"}, to : ToStrings]

\* One evaluation of lines 192-196 on the to-address.
evaluate_ContractIdOf ==
    /\ arg # None
    /\ ret = None
    /\ arg[1].fn = "ContractIdOf"
    /\ ret' = Some(ContractIdOf(arg[1].to))
    /\ UNCHANGED <<adapter, arg>>

\* ------------------------------------------- operatorAccountGauge.collect

\* What the operator's AccountBalanceQuery resolves to:
\* accountBalance.hbars.toTinybars().toNumber()
Balances == 0..MaxCost

\* The slots other than the gauge's own state that a step of collect leaves alone.
collectFrame == <<op, query, name, response, locals, fault, registry, instances, evaluation, clientMain>>

\* The registry collects the gauge: collect() up to
\* `await new AccountBalanceQuery()...execute(clientMain)`.
collect(p) ==
    /\ CanCall(p)
    /\ op' = [op EXCEPT ![p] = "collect"]
    /\ Await(p, <<>>, "collect.execute")
    /\ NoMetrics
    /\ UNCHANGED <<query, name, response, settled, locals, metricsEnv, evaluation, clientMain>>

\* Faulty variant: the balance query goes through executeQuery, which records it.
collect_resolved_Metered(p) ==
    /\ pc[p] = "collect.execute"
    /\ \E balance \in Balances :
        /\ settled' = [settled EXCEPT ![p] = Resolved("collect.execute", balance)]
        /\ gauge' = Some(balance)
    /\ captureMetrics(p, queryMode, "AccountBalanceQuery", Some(StatusSuccess), None)
    /\ Settle(p, <<"observe", "set">>, Return(None))
    /\ UNCHANGED <<collectFrame, errorLog>>

\* The balance query resolved: this.set(balance in tinybars).
collect_resolved(p) ==
    /\ pc[p] = "collect.execute"
    /\ \E balance \in Balances :
        /\ settled' = [settled EXCEPT ![p] = Resolved("collect.execute", balance)]
        /\ gauge' = Some(balance)
    /\ Settle(p, <<"set">>, Return(None))
    /\ NoMetrics
    /\ UNCHANGED <<collectFrame, errorLog>>

\* Faulty variant: the catch block is missing.
collect_rejected_Raised(p) ==
    /\ pc[p] = "collect.execute"
    /\ \E e \in NativeErrors :
        /\ settled' = [settled EXCEPT ![p] = Rejected("collect.execute", e)]
        /\ Settle(p, <<>>, Raise(e))
    /\ NoMetrics
    /\ UNCHANGED <<collectFrame, gauge, errorLog>>

\* The balance query was rejected: the catch block logs the error and sets 0.
collect_rejected(p) ==
    /\ pc[p] = "collect.execute"
    /\ \E e \in NativeErrors :
        /\ settled' = [settled EXCEPT ![p] = Rejected("collect.execute", e)]
        /\ errorLog' = errorLog (+) SetToBag({e})
    /\ gauge' = Some(0)
    /\ Settle(p, <<"logger.error", "set">>, Return(None))
    /\ NoMetrics
    /\ UNCHANGED collectFrame

\* Another `new SDKClient(clientMain, logger, register)` on the same registry.
construct ==
    /\ Len(instances) < MaxInstances
    /\ registry' = constructor(registry, Len(instances) + 1).registry
    /\ instances' = Append(instances, constructor(registry, Len(instances) + 1).outcome)
    /\ UNCHANGED <<op, pc, query, name, response, result, settled, events, observed,
                   histogram, gaugeDecs, locals, fault, gauge, errorLog, evaluation, clientMain,
                   clients>>

\* ------------------------------------------------------------ behaviour

Next ==
    \E p \in Procs :
        \/ executeQuery(p)
        \/ executeQuery_resolved(p)
        \/ executeQuery_rejected(p)
        \/ submitEthereumTransaction(p)
        \/ executeAndGetTransactionReceipt(p)
        \/ executeTransaction_resolved(p)
        \/ executeTransaction_rejected(p)
        \/ getReceipt_resolved(p)
        \/ getReceipt_rejected(p)
        \/ executeGetTransactionRecord(p)
        \/ getRecord_resolved(p)
        \/ getRecord_rejected(p)
        \/ submitContractCallQuery(p)
        \/ getCost_resolved(p)
        \/ getCost_rejected(p)

Spec == Init /\ [][Next]_vars

\* The metrics of the adapter: queries that record, collections of the gauge,
\* and further adapters constructed on the registry.
NextMetrics ==
    \/ \E p \in Procs :
        \/ executeQuery(p)
        \/ executeQuery_resolved(p)
        \/ executeQuery_rejected(p)
        \/ collect(p)
        \/ collect_resolved(p)
        \/ collect_rejected(p)
    \/ construct

SpecMetrics == Init /\ [][NextMetrics]_vars

\* One caller of getTinyBarGasFee: what it does is the same whatever else is
\* in flight, and it is followed through every fee schedule it may read.
GasFeeCaller == CHOOSE p \in Procs : \A r \in Procs : p <= r

NextGasFee ==
    \/ getTinyBarGasFee(GasFeeCaller)
    \/ getFeeSchedule_resolved(GasFeeCaller)
    \/ getExchangeRate_resolved(GasFeeCaller)
    \/ executeQuery_rejected(GasFeeCaller)

SpecGasFee == Init /\ [][NextGasFee]_vars

\* convertGasPriceToTinyBars evaluated on each gas component and rate.
InitGasPrice ==
    /\ Constructed
    /\ fault = "none"
    /\ arg \in {Some(c) : c \in GasPriceCalls}
    /\ ret = None

SpecGasPrice == InitGasPrice /\ [][evaluate_convertGasPriceToTinyBars]_vars

\* prepend0x and prune0x evaluated on each string.
InitHex ==
    /\ Constructed
    /\ fault = "none"
    /\ arg \in {Some(c) : c \in HexCalls}
    /\ ret = None

SpecHex == InitHex /\ [][evaluate_prepend0x_prune0x]_vars

\* The contract id built for each to-address.
InitContractId ==
    /\ Constructed
    /\ fault = "none"
    /\ arg \in {Some(c) : c \in ContractIdCalls}
    /\ ret = None

SpecContractId == InitContractId /\ [][evaluate_ContractIdOf]_vars

\* One caller asks for a balance in weibars: the balance query of either
\* operation resolves or is rejected.
BalanceCaller == CHOOSE p \in Procs : \A r \in Procs : p <= r

NextBalance ==
    \/ getAccountBalanceInWeiBar(BalanceCaller)
    \/ getContractBalanceInWeiBar(BalanceCaller)
    \/ getBalance_resolved(BalanceCaller)
    \/ executeQuery_rejected(BalanceCaller)

SpecBalance == Init /\ [][NextBalance]_vars

\* The queries in flight together: plain queries and contract calls.
NextQueries ==
    \E p \in Procs :
        \/ executeQuery(p)
        \/ executeQuery_resolved(p)
        \/ executeQuery_rejected(p)
        \/ submitContractCallQuery(p)
        \/ getCost_resolved(p)
        \/ getCost_rejected(p)

SpecQueries == Init /\ [][NextQueries]_vars

\* The retrievals of transaction records in flight together.
NextRecords ==
    \E p \in Procs :
        \/ executeGetTransactionRecord(p)
        \/ getRecord_resolved(p)
        \/ getRecord_rejected(p)

SpecRecords == Init /\ [][NextRecords]_vars

\* Every native call of the adapter: those of its operations and the balance
\* query of the gauge's collect().
NextClient ==
    \/ Next
    \/ \E p \in Procs :
        \/ collect(p)
        \/ collect_resolved(p)
        \/ collect_rejected(p)

SpecClient == Init /\ [][NextClient]_vars

\* The same adapter on a registry whose metric primitives throw.
InitRecorderFault ==
    /\ Constructed
    /\ fault \in Faults
    /\ arg = None
    /\ ret = None

SpecRecorderFault == InitRecorderFault /\ [][Next]_vars

\* ----------------------------------------------------------- properties

Done(p) == pc[p] = "done"

NativeCalls == {"query.execute", "transaction.execute", "getReceipt", "getRecord", "getCost"}

Occurrences(s, x) == Cardinality({i \in DOMAIN s : s[i] = x})

\* The native calls invocation p has issued.
CallsMade(p) == Cardinality({i \in DOMAIN events[p] : events[p][i] \in NativeCalls})

\* Invocation p ended after the native call `call` resolved / rejected.
ResolvedAt(p, call) ==
    /\ settled[p] # None
    /\ settled[p][1].ok
    /\ settled[p][1].call = call
RejectedAt(p, call) ==
    /\ settled[p] # None
    /\ ~settled[p][1].ok
    /\ settled[p][1].call = call

\* The value / the error that native call settled with.
ResolutionOf(p) == settled[p][1].value[1]
RejectionOf(p) == settled[p][1].error[1]

\* The error has a status whose numeric code is not 0.
CarriesCode(e) == e.status # None /\ e.status # Some(0)

\* A fresh error object that has the message of e and nothing else of it.
MessageOnly(e) == [native |-> FALSE, status |-> None, message |-> e.message]

RECURSIVE ObservedUpTo(_)
ObservedUpTo(n) == IF n = 0 THEN 0 ELSE Len(observed[n]) + ObservedUpTo(n - 1)

\* The histogram holds what the invocations recorded, and nothing else.
HistogramIsObserved ==
    /\ BagCardinality(histogram) = ObservedUpTo(MaxCalls)
    /\ \A p \in Procs : \A i \in DOMAIN observed[p] : BagIn(observed[p][i], histogram)
    /\ \A p \in Procs : Occurrences(events[p], "observe") = Len(observed[p])

ExpectedObservations(p) ==
    Occurrences(events[p], "query.execute")
    + (IF \/ ResolvedAt(p, "getRecord")
          \/ (RejectedAt(p, "getRecord") /\ CarriesCode(RejectionOf(p)))
       THEN 1 ELSE 0)

C2_FailedQueryObservation ==
    \A p \in Procs :
        RejectedAt(p, "query.execute") =>
            /\ Len(observed[p]) = 1
            /\ observed[p][1].mode = queryMode
            /\ observed[p][1].status =
                (IF RejectionOf(p).status = None
                 THEN Some(StatusUnknown) ELSE RejectionOf(p).status)
            /\ observed[p][1].cost = 0

\* The payment amount on the query of p, 0 when it carries none.
PaymentAmount(p) == IF query[p].payment = None THEN 0 ELSE query[p].payment[1]

\* C3: a successful executeQuery records exactly one observation: QUERY mode,
\* the query's type, status success and the payment amount on the query (0
\* when there is none) as cost; the caller gets the native response itself.
C3_SuccessfulQueryObservation ==
    \A p \in Procs :
        ResolvedAt(p, "query.execute") =>
            /\ observed[p] = << [mode |-> "QUERY", type |-> query[p].type,
                                 status |-> Some(StatusSuccess), cost |-> PaymentAmount(p)] >>
            /\ BagIn(observed[p][1], histogram)
            /\ result[p] = Return(ResolutionOf(p))

\* C3 witness: a query with a payment of 1 succeeded and was observed at cost 1.
C3_Witness ==
    \E p \in Procs :
        /\ op[p] = "executeQuery"
        /\ ResolvedAt(p, "query.execute")
        /\ query[p].payment = Some(1)
        /\ observed[p][1].cost = 1
        /\ result[p].kind = "return"

\* p is a query or transaction whose native execute call failed.
ExecuteFailed(p) == RejectedAt(p, "query.execute") \/ RejectedAt(p, "transaction.execute")

\* The error the code raises for the native error e: a fresh message-only
\* error when e has a non-zero status code, e itself otherwise.
RaisedFor(e) == IF CarriesCode(e) THEN MessageOnly(e) ELSE e

\* In the event sequence s some x comes before some y.
Precedes(s, x, y) == \E i, j \in DOMAIN s : i < j /\ s[i] = x /\ s[j] = y

C5_StatusAndMessageSurfaced ==
    \A p \in Procs :
        (ExecuteFailed(p) /\ RejectionOf(p).status # None) =>
            /\ result[p].kind = "raise"
            /\ result[p].error[1].status = RejectionOf(p).status
            /\ result[p].error[1].message = RejectionOf(p).message

TransactionObservations(h) == {o \in BagToSet(h) : o.mode = "TRANSACTION"}

\* C7: no step of executeTransaction (its call, its success, its failure)
\* changes the histogram, and the number of TRANSACTION observations changes
\* only in a step of executeGetTransactionRecord.
C7_TransactionsNotMetered ==
    [][/\ \A p \in Procs :
            (/\ op'[p] \in TransactionOps
             /\ "transaction.execute" \in {pc[p], pc'[p]}
             /\ pc'[p] # pc[p])
            => histogram' = histogram
       /\ (\E o \in TransactionObservations(histogram') :
                CopiesIn(o, histogram') # CopiesIn(o, histogram))
            => \E p \in Procs :
                /\ op'[p] = "executeGetTransactionRecord"
                /\ pc'[p] # pc[p]
      ]_vars

\* C7 witness: one submission succeeded, another failed with a status code,
\* no record was requested, and the histogram is empty.
C7_Witness ==
    \E p, r \in Procs :
        /\ op[p] = "submitEthereumTransaction"
        /\ ResolvedAt(p, "transaction.execute")
        /\ op[r] = "submitEthereumTransaction"
        /\ RejectedAt(r, "transaction.execute")
        /\ CarriesCode(RejectionOf(r))
        /\ histogram = EmptyBag

\* C8 (as stated): executeAndGetTransactionReceipt raises the fresh
\* message-only error for a failure with a status code, whether the
\* submission or the receipt retrieval failed.
C8_BothStagesNormalized ==
    \A p \in Procs :
        (/\ op[p] = "executeAndGetTransactionReceipt"
         /\ (RejectedAt(p, "transaction.execute") \/ RejectedAt(p, "getReceipt"))
         /\ CarriesCode(RejectionOf(p))) =>
            result[p] = Raise(MessageOnly(RejectionOf(p)))

\* C9: when executeGetTransactionRecord retrieves a record, it records exactly
\* one observation: TRANSACTION mode, the transactionName argument, the
\* record's receipt status and its transaction fee; and it returns the record.
C9_RecordObservation ==
    \A p \in Procs :
        ResolvedAt(p, "getRecord") =>
            /\ observed[p] = << [mode |-> "TRANSACTION", type |-> name[p],
                                 status |-> Some(ResolutionOf(p).status),
                                 cost |-> ResolutionOf(p).fee] >>
            /\ BagIn(observed[p][1], histogram)
            /\ result[p] = Return(ResolutionOf(p))

\* C9 witness: a record with a fee of 1 and a status that is not success was
\* retrieved under the name ContractCreateTransaction.
C9_Witness ==
    \E p \in Procs :
        /\ op[p] = "executeGetTransactionRecord"
        /\ ResolvedAt(p, "getRecord")
        /\ name[p] = "ContractCreateTransaction"
        /\ ResolutionOf(p).fee = 1
        /\ ResolutionOf(p).status = StatusInsufficientPayerBalance
        /\ Len(observed[p]) = 1

\* C10: an executeGetTransactionRecord whose resp has no getRecord ends at
\* once with the invalid-response error: no native call, no observation.  A
\* retrieval the network failed ends with another error, and with an
\* observation when the failure has a status code.
C10_InvalidResponseFormat ==
    /\ BagCardinality(histogram) = ObservedUpTo(MaxCalls)
    /\ \A p \in Procs :
        (op[p] = "executeGetTransactionRecord" /\ ~response[p]) =>
            /\ Done(p)
            /\ events[p] = <<"raise">>
            /\ observed[p] = <<>>
            /\ result[p] = Raise([native |-> FALSE, status |-> None,
                                  message |-> InvalidResponseFormat])
            /\ \A r \in Procs :
                RejectedAt(r, "getRecord") =>
                    /\ result[r].kind = "raise"
                    /\ result[r] # result[p]
                    /\ CarriesCode(RejectionOf(r)) => Len(observed[r]) = 1

\* C10 witness: one call was given a resp without getRecord, another's
\* retrieval failed with a status code.
C10_Witness ==
    \E p, r \in Procs :
        /\ op[p] = "executeGetTransactionRecord"
        /\ ~response[p]
        /\ Done(p)
        /\ RejectedAt(r, "getRecord")
        /\ CarriesCode(RejectionOf(r))

\* --- C11

\* The primitives of the SDK that the four executor functions call.
NativePrimitives == {"query.execute", "transaction.execute", "getReceipt", "getRecord"}

\* The native calls of invocation p, in the order it issued them.
CallsOf(p) == SelectSeq(events[p], LAMBDA ev : ev \in NativeCalls)

\* C11: no retry.  An invocation calls each native primitive (execute,
\* getReceipt, getRecord) at most once; and once a native call of it has
\* failed the invocation is over, with an error raised, and the failed call
\* is the last native call it made.
C11_NoRetry ==
    \A p \in Procs :
        /\ \A c \in NativePrimitives : Occurrences(events[p], c) <= 1
        /\ (settled[p] # None /\ ~settled[p][1].ok) =>
                /\ Done(p)
                /\ result[p].kind = "raise"
                /\ CallsOf(p) # <<>>
                /\ CallsOf(p)[Len(CallsOf(p))] = settled[p][1].call

\* Reached: a receipt invocation whose submission failed, and so made one
\* native call, next to a query invocation whose execute failed.
C11_Witness ==
    \E p, r \in Procs :
        /\ op[p] = "executeAndGetTransactionReceipt"
        /\ RejectedAt(p, "transaction.execute")
        /\ CallsOf(p) = <<"transaction.execute">>
        /\ op[r] = "executeQuery"
        /\ RejectedAt(r, "query.execute")
        /\ CallsOf(r) = <<"query.execute">>

\* --- C12

\* C12: a failure inside the metrics recorder never reaches the caller.  An
\* invocation whose query.execute resolved returns what it resolved to, and
\* one whose query.execute was rejected raises the normalized native error,
\* whatever observe and dec did.
C12_RecorderFailureContained ==
    \A p \in Procs :
        /\ ResolvedAt(p, "query.execute") => result[p] = Return(ResolutionOf(p))
        /\ RejectedAt(p, "query.execute") => result[p] = Raise(RaisedFor(RejectionOf(p)))

\* Reached: with a throwing recorder, a query that resolved and a query that
\* was rejected have both ended.
C12_Witness ==
    /\ fault \in Faults
    /\ \E p, r \in Procs :
        /\ ResolvedAt(p, "query.execute")
        /\ RejectedAt(r, "query.execute")

\* --- C13

\* C13: a collection of the gauge issues one balance query for the operator
\* account.  The step that ends the collection sets the gauge: to the balance
\* the query returned, in tinybars, when it succeeded; to 0, with the error
\* logged, when it failed.  Either way collect() returns, and raises nothing.
C13_CollectSetsGauge ==
    [][\A p \in Procs :
        /\ (op[p] = "none" /\ op'[p] = "collect") =>
                events'[p] = <<"collect.execute">>
        /\ (op[p] = "collect" /\ pc'[p] # pc[p]) =>
                /\ pc[p] = "collect.execute" /\ pc'[p] = "done"
                /\ result'[p].kind = "return"
                /\ settled'[p] # None
                /\ settled'[p][1].call = "collect.execute"
                /\ IF settled'[p][1].ok
                   THEN /\ gauge' = settled'[p][1].value
                        /\ errorLog' = errorLog
                   ELSE /\ gauge' = Some(0)
                        /\ errorLog' = errorLog (+) SetToBag({settled'[p][1].error[1]})]_vars

\* Reached: two collections done, one whose query failed after one whose
\* query had returned a balance other than 0.
C13_Witness ==
    \E p, r \in Procs :
        /\ op[p] = "collect" /\ ResolvedAt(p, "collect.execute") /\ ResolutionOf(p) # 0
        /\ op[r] = "collect" /\ RejectedAt(r, "collect.execute")
        /\ result[r].kind = "return"
        /\ gauge = Some(0)
        /\ BagCardinality(errorLog) = 1

\* --- C14

\* The metrics registered under metricName.
Registered(metricName) == {i \in DOMAIN registry : registry[i].name = metricName}

\* C14: however many adapters have been constructed on the registry, it holds
\* exactly one histogram named rpc_relay_consensusnode_response and exactly
\* one gauge named rpc_relay_operator_balance, both of the adapter constructed
\* last (the earlier ones were removed); and no construction threw.
C14_IdempotentRegistration ==
    /\ Cardinality(Registered("rpc_relay_consensusnode_response")) = 1
    /\ Cardinality(Registered("rpc_relay_operator_balance")) = 1
    /\ \A i \in Registered("rpc_relay_consensusnode_response") :
        registry[i].kind = "Histogram" /\ registry[i].instance = Len(instances)
    /\ \A i \in Registered("rpc_relay_operator_balance") :
        registry[i].kind = "Gauge" /\ registry[i].instance = Len(instances)
    /\ \A i \in DOMAIN instances : instances[i] = "constructed"

\* Reached: a third adapter has been constructed on the registry.
C14_Witness ==
    /\ Len(instances) >= 3
    /\ \E i \in DOMAIN registry : registry[i].instance = 3

\* --- C15

\* The table of a parsed fee schedule that has one, and whether one of its
\* entries carries the contract-call functionality code.
TableOf(parsed) == parsed.current[1].transactionFeeSchedule[1]
HasTable(parsed) == parsed.current # None /\ parsed.current[1].transactionFeeSchedule # None
HasContractCallEntry(parsed) ==
    \E i \in DOMAIN TableOf(parsed) :
        TableOf(parsed)[i].hederaFunctionality = Some("constants.ETH_FUNCTIONALITY_CODE")

\* Invocation p of getTinyBarGasFee has ended, having read and parsed the fee schedule.
GasFeeDone(p) == op[p] = "getTinyBarGasFee" /\ Done(p) /\ feeSchedules[p] # None

\* A fresh error with this message, and nothing else.
PlainError(message) == [native |-> FALSE, status |-> None, message |-> message]

\* C15: when the fee schedule read has a current table without an entry for
\* the contract-call functionality, getTinyBarGasFee raises the
\* code-not-found error and returns no price; the one observation it has
\* recorded is that of the fee schedule read: QUERY, FileContentsQuery,
\* success, at the payment of that query.
C15_FunctionalityNotFound ==
    \A p \in Procs :
        (GasFeeDone(p) /\ HasTable(feeSchedules[p][1]) /\ ~HasContractCallEntry(feeSchedules[p][1])) =>
            /\ result[p] = Raise(PlainError("${constants.ETH_FUNCTIONALITY_CODE} code not found in feeSchedule"))
            /\ query[p].fileId = "constants.FEE_SCHEDULE_FILE_ID"
            /\ observed[p] = <<[mode |-> "QUERY", type |-> "FileContentsQuery",
                                status |-> Some(22), cost |-> PaymentAmount(p)]>>
            /\ BagToSet(histogram) = {observed[p][1]}

\* Reached: the table holds an entry of another functionality only, and the
\* read of the file cost 1 tinybar.
C15_Witness ==
    \E p \in Procs :
        /\ GasFeeDone(p)
        /\ HasTable(feeSchedules[p][1])
        /\ Len(TableOf(feeSchedules[p][1])) = 1
        /\ ~HasContractCallEntry(feeSchedules[p][1])
        /\ result[p].kind = "raise"
        /\ PaymentAmount(p) = 1

\* --- C16

\* C16: when the parsed fee schedule has no current section, or its current
\* section has no table, getTinyBarGasFee raises the invalid-format error;
\* the fee schedule read is the only native call it made, so no exchange
\* rate was fetched.
C16_InvalidFeeScheduleFormat ==
    \A p \in Procs :
        (GasFeeDone(p) /\ ~HasTable(feeSchedules[p][1])) =>
            /\ result[p] = Raise(PlainError("Invalid FeeSchedules proto format"))
            /\ CallsOf(p) = <<"query.execute">>
            /\ query[p].fileId = "constants.FEE_SCHEDULE_FILE_ID"
            /\ exchangeRates[p] = None

\* Reached: a schedule without a current section was refused.
C16_Witness ==
    \E p \in Procs :
        GasFeeDone(p) /\ feeSchedules[p][1].current = None /\ result[p].kind = "raise"

\* --- C17

\* The entry the price is taken from: the first entry of the table with the
\* contract-call functionality code and fees.
PricedEntries(parsed) ==
    {i \in DOMAIN TableOf(parsed) :
        /\ TableOf(parsed)[i].hederaFunctionality = Some("constants.ETH_FUNCTIONALITY_CODE")
        /\ TableOf(parsed)[i].fees # None}
PricedEntry(parsed) ==
    TableOf(parsed)[CHOOSE i \in PricedEntries(parsed) : \A j \in PricedEntries(parsed) : i <= j]

\* That entry exists and has fee components with a gas component.
HasGasComponent(parsed) ==
    /\ HasTable(parsed)
    /\ PricedEntries(parsed) # {}
    /\ PricedEntry(parsed).fees[1] # <<>>
    /\ PricedEntry(parsed).fees[1][1].servicedata # None
    /\ PricedEntry(parsed).fees[1][1].servicedata[1].contractTransactionGas # None

\* C17: getTinyBarGasFee never returns a defaulted price.  It returns only
\* when the contract-call entry exists and has a gas component; when the
\* entry, its fee components or the gas component is missing, it raises.
C17_NeverDefaulted ==
    \A p \in Procs :
        (GasFeeDone(p) /\ ~HasGasComponent(feeSchedules[p][1])) => result[p].kind = "raise"

\* Reached: the contract-call entry has fees whose fee components are
\* missing, and the exchange rate was read.
C17_Witness ==
    \E p \in Procs :
        /\ GasFeeDone(p)
        /\ HasTable(feeSchedules[p][1])
        /\ PricedEntries(feeSchedules[p][1]) # {}
        /\ PricedEntry(feeSchedules[p][1]).fees[1] # <<>>
        /\ PricedEntry(feeSchedules[p][1]).fees[1][1].servicedata = None
        /\ exchangeRates[p] # None

\* --- C18

\* The gas component and the current rate convertGasPriceToTinyBars was evaluated on.
GasPriceEvaluated == arg # None /\ ret # None /\ arg[1].fn = "convertGasPriceToTinyBars"

\* C18: for a gas component g and a current rate of h hbars for c cents,
\* c > 0, convertGasPriceToTinyBars returns the least integer r with
\* r >= (g * h) / (1000 * c): r * 1000 * c >= g * h > (r - 1) * 1000 * c.
C18_LeastIntegerAtOrAbove ==
    GasPriceEvaluated =>
        LET g == arg[1].feeComponents[1].contractTransactionGas[1]
            h == arg[1].exchangeRates.currentRate.hbars
            c == arg[1].exchangeRates.currentRate.cents
            r == ret[1]
        IN  /\ r * 1000 * c >= g * h
            /\ (r - 1) * 1000 * c < g * h

\* Reached: a price that is not a whole number of tinybars was rounded.
C18_Witness ==
    /\ GasPriceEvaluated
    /\ arg[1].feeComponents[1].contractTransactionGas[1] = 21000
    /\ arg[1].exchangeRates.currentRate = [hbars |-> 9, cents |-> 7]
    /\ ret[1] = 28

\* --- C19

\* prepend0x and prune0x were evaluated on a string.
HexEvaluated == arg # None /\ ret # None /\ arg[1].fn = "prepend0x, prune0x"

\* The string begins with the characters 0 and x.
BeginsWith0x(s) == Len(s) >= 2 /\ s[1] = "0" /\ s[2] = "x"

\* C19 as stated: for every string x, prepend0x(prune0x(x)) = prepend0x(x)
\* and prune0x(prepend0x(x)) = prune0x(x).
C19_RoundTrip ==
    HexEvaluated =>
        /\ ret[1].prepend0x_prune0x = ret[1].prepend0x
        /\ ret[1].prune0x_prepend0x = ret[1].prune0x

\* C19, amended: for every string x, prune0x(prepend0x(x)) = prune0x(x);
\* prepend0x(prune0x(x)) = prepend0x(x) when prune0x(x) does not itself
\* begin with 0x, and otherwise prepend0x(prune0x(x)) = prune0x(x), which is
\* x without its first prefix.
C19_RoundTripOfSinglePrefix ==
    HexEvaluated =>
        /\ ret[1].prune0x_prepend0x = ret[1].prune0x
        /\ IF BeginsWith0x(ret[1].prune0x)
           THEN /\ ret[1].prepend0x_prune0x = ret[1].prune0x
                /\ arg[1].input = <<"0", "x">> \o ret[1].prune0x
           ELSE ret[1].prepend0x_prune0x = ret[1].prepend0x

\* Reached: a string with two prefixes was evaluated, and pruning then
\* prepending gave back a string with one.
C19_Witness ==
    /\ HexEvaluated
    /\ arg[1].input = <<"0", "x", "0", "x">>
    /\ ret[1].prepend0x_prune0x = <<"0", "x">>
    /\ ret[1].prepend0x = <<"0", "x", "0", "x">>

\* --- C20

\* Invocation p of submitContractCallQuery has issued the execute of its query.
ContractCallExecuted(p) ==
    op[p] = "submitContractCallQuery" /\ Occurrences(events[p], "query.execute") > 0

\* C20: in submitContractCallQuery, whichever way the contract id was
\* built, the query is executed only after getCost has resolved, and it then
\* carries as payment the cost getCost resolved to; when getCost is rejected
\* the query is never executed.
C20_CostBeforeExecute ==
    \A p \in Procs :
        op[p] = "submitContractCallQuery" =>
            /\ contractId[p] # None
            /\ ContractCallExecuted(p) =>
                    /\ CallsOf(p) = <<"getCost", "query.execute">>
                    /\ estimatedCost[p] # None
                    /\ query[p].payment = estimatedCost[p]
            /\ ~ContractCallExecuted(p) => CallsOf(p) = <<"getCost">> /\ query[p].payment = None
            /\ RejectedAt(p, "getCost") => Done(p) /\ ~ContractCallExecuted(p)

\* Reached: a call to a long-zero address and a call to an EVM address have
\* both executed their query with the estimated cost of 1 as payment, and
\* the first has succeeded.
C20_Witness ==
    \E p, r \in Procs :
        /\ ContractCallExecuted(p)
        /\ contractId[p][1].from = "fromSolidityAddress"
        /\ estimatedCost[p] = Some(1)
        /\ ResolvedAt(p, "query.execute")
        /\ ContractCallExecuted(r)
        /\ contractId[r][1].from = "fromEvmAddress"
        /\ query[r].payment = Some(1)

\* --- C21

\* The contract id of a to-address was built.
ContractIdEvaluated == arg # None /\ ret # None /\ arg[1].fn = "ContractIdOf"

\* The first eleven characters of s are all '0'.
BeginsWithElevenZeros(s) == Len(s) >= 11 /\ \A i \in 1..11 : s[i] = "0"

\* s without the '0x' it begins with, if it does.
WithoutPrefix(s) == IF BeginsWith0x(s) THEN [i \in 1..(Len(s) - 2) |-> s[i + 2]] ELSE s

\* C21 as stated: the contract id is built from a solidity address exactly
\* when the to-address string begins with eleven '0' characters, and from an
\* EVM address in shard 0, realm 0 for every other string.
C21_PathByLeadingZeros ==
    ContractIdEvaluated =>
        IF BeginsWithElevenZeros(arg[1].to)
        THEN ret[1].from = "fromSolidityAddress"
        ELSE ret[1].from = "fromEvmAddress" /\ ret[1].shard = 0 /\ ret[1].realm = 0

\* C21, amended: the contract id is built from a solidity address exactly
\* when the to-address, without the '0x' it may begin with, begins with
\* eleven '0' characters, and from an EVM address in shard 0, realm 0
\* otherwise; either is built from the to-address without that '0x'.
C21_PathByLeadingZerosAfterPrefix ==
    ContractIdEvaluated =>
        /\ ret[1].address = WithoutPrefix(arg[1].to)
        /\ IF BeginsWithElevenZeros(WithoutPrefix(arg[1].to))
           THEN ret[1].from = "fromSolidityAddress"
           ELSE ret[1].from = "fromEvmAddress" /\ ret[1].shard = 0 /\ ret[1].realm = 0

\* Reached: a to-address of '0x', eleven zeros and a 1 took the solidity path.
C21_Witness ==
    /\ ContractIdEvaluated
    /\ arg[1].to = <<"0", "x", "0", "0", "0", "0", "0", "0", "0", "0", "0", "0", "0", "1">>
    /\ ret[1].from = "fromSolidityAddress"

\* --- C22

\* The integer written by the digits x, lowest first, modulo m.
RECURSIVE ResidueOf(_, _)
ResidueOf(x, m) ==
    IF x = <<>> THEN 0 ELSE (x[1] + 10 * ResidueOf(SubSeq(x, 2, Len(x)), m)) % m

\* Seven primes whose product exceeds 10^31.
Moduli == {32749, 32719, 32717, 32713, 32707, 32693, 32687}

\* w is the product of x and y, all three written in decimal digits without
\* leading zeros: w has no more digits than x and y together, fewer than
\* 31, and is congruent to the product modulo each of the primes.
IsProduct(w, x, y) ==
    /\ \A i \in DOMAIN w : w[i] \in 0..9
    /\ w = <<>> \/ w[Len(w)] # 0
    /\ Len(w) <= Len(x) + Len(y)
    /\ Len(x) + Len(y) <= 31
    /\ \A m \in Moduli : ResidueOf(w, m) = (ResidueOf(x, m) * ResidueOf(y, m)) % m

\* C22: getAccountBalanceInWeiBar and getContractBalanceInWeiBar return the
\* balance that the balance query resolved to, in tinybars, times the
\* tinybar-to-weibar coefficient, exactly; they return only when the query
\* succeeded, and raise when it failed.
C22_ExactWeiBarBalance ==
    \A p \in Procs :
        (op[p] \in {"getAccountBalanceInWeiBar", "getContractBalanceInWeiBar"} /\ Done(p)) =>
            /\ ResolvedAt(p, "query.execute") =>
                    /\ result[p].kind = "return"
                    /\ IsProduct(result[p].value[1], ResolutionOf(p),
                                 <<0, 0, 0, 0, 0, 0, 0, 0, 0, 0, 1>>)
            /\ RejectedAt(p, "query.execute") => result[p].kind = "raise"
            /\ result[p].kind = "return" => ResolvedAt(p, "query.execute")

\* Reached: a contract balance of 2^63 tinybars was returned in weibars.
C22_Witness ==
    \E p \in Procs :
        /\ op[p] = "getContractBalanceInWeiBar"
        /\ ResolvedAt(p, "query.execute")
        /\ ResolutionOf(p) = <<8, 0, 8, 5, 7, 7, 4, 5, 8, 6, 3, 0, 2, 7, 3, 3, 2, 2, 9>>
        /\ result[p].value[1] =
            <<0, 0, 0, 0, 0, 0, 0, 0, 0, 0, 8, 0, 8, 5, 7, 7, 4, 5, 8, 6, 3, 0, 2, 7, 3, 3, 2, 2, 9>>

\* --- C23

\* The invocations whose query has been executed and has completed.
CompletedQueries ==
    {p \in Procs : Done(p) /\ (ResolvedAt(p, "query.execute") \/ RejectedAt(p, "query.execute"))}

\* The observation that belongs to the completed query p: its own type, the
\* success status or the status of its failure, and its own payment.
QueryObservation(p) ==
    [mode |-> "QUERY",
     type |-> query[p].type,
     status |-> IF ResolvedAt(p, "query.execute") THEN Some(22) ELSE RejectionOf(p).status,
     cost |-> PaymentAmount(p)]

\* C23: however the completions of the queries in flight interleave, the
\* QUERY observations in the histogram are, with their multiplicity, the
\* observations of the queries that have completed: one for each, with that
\* query's own type, status and cost.  None is lost, none is recorded twice
\* and none is recorded for a query still in flight.
C23_OneObservationPerQuery ==
    /\ \A p \in CompletedQueries : observed[p] = <<QueryObservation(p)>>
    /\ \A p \in Procs \ CompletedQueries :
            \A i \in DOMAIN observed[p] : observed[p][i].mode # "QUERY"
    /\ \A o \in {QueryObservation(p) : p \in CompletedQueries} \cup
                {h \in BagToSet(histogram) : h.mode = "QUERY"} :
            CopiesIn(o, histogram) = Cardinality({p \in CompletedQueries : QueryObservation(p) = o})

\* Reached: every invocation was a query and all have completed; a contract
\* call that succeeded at cost 1 next to a balance query that failed with a
\* status, so that the histogram holds two observations that differ in type,
\* status and cost.
C23_Witness ==
    /\ CompletedQueries = Procs
    /\ \E p, r \in Procs :
        /\ query[p].type = "ContractCallQuery"
        /\ ResolvedAt(p, "query.execute")
        /\ PaymentAmount(p) = 1
        /\ query[r].type = "AccountBalanceQuery"
        /\ RejectedAt(r, "query.execute")
        /\ RejectionOf(r).status = Some(10)
        /\ PaymentAmount(r) = 0
    /\ BagCardinality(histogram) = Cardinality(Procs)

\* --- C24

\* A native call of invocation p has failed.
NativeFailure(p) == settled[p] # None /\ ~settled[p][1].ok

\* The outcomes in the events of invocation p.
OutcomesOf(p) == SelectSeq(events[p], LAMBDA ev : ev \in {"return", "raise"})

\* C24 as stated: an invocation that has ended has returned a value if
\* every native call it made succeeded, and has raised an error otherwise.
C24_ReturnsIffNativeSuccess ==
    \A p \in Procs :
        Done(p) =>
            /\ result[p].kind \in {"return", "raise"}
            /\ result[p].kind = "return" <=> ~NativeFailure(p)

\* Invocation p raised although no native call of it failed because what it
\* was given, or what it read, is not well formed: a response without
\* getRecord, or a fee schedule or exchange rate file that cannot be used.
RefusedInput(p) ==
    \/ op[p] = "executeGetTransactionRecord" /\ ~response[p] /\ settled[p] = None
    \/ op[p] = "getTinyBarGasFee" /\ ResolvedAt(p, "query.execute")

\* The outcome of invocation p: pending until it ends, then one outcome,
\* which is the last of its events.  A value is returned only after a native
\* call, and only if none failed; an error is raised after a native failure,
\* or when the input was refused.
OneOutcome(p) ==
    /\ pc[p] # "done" => result[p].kind = "pending" /\ OutcomesOf(p) = <<>>
    /\ pc[p] = "done" =>
        /\ result[p].kind \in {"return", "raise"}
        /\ OutcomesOf(p) = <<result[p].kind>>
        /\ events[p][Len(events[p])] = result[p].kind
        /\ result[p].kind = "return" =>
                /\ result[p].value # None /\ result[p].error = None
                /\ settled[p] # None /\ settled[p][1].ok
        /\ result[p].kind = "raise" =>
                /\ result[p].error # None /\ result[p].value = None
                /\ NativeFailure(p) \/ RefusedInput(p)
        /\ NativeFailure(p) => result[p].kind = "raise"

\* C24, amended: every invocation starts pending and, when the native call it
\* awaits completes, either awaits its next native call or ends in exactly
\* one outcome: it returns a value only if every native call it made
\* succeeded, and raises one error when a native call failed or when its
\* input was refused without any native failure; once it has ended, its
\* outcome never changes.
C24_OneTerminalOutcome ==
    [][\A p \in Procs :
        /\ OneOutcome(p)
        /\ OneOutcome(p)'
        /\ pc[p] = "done" => pc'[p] = "done" /\ result'[p] = result[p] /\ events'[p] = events[p]]_vars

\* Reached: one invocation has returned after its two native calls
\* succeeded, and another was refused its response and raised without any
\* native call.
C24_Witness ==
    \E p, r \in Procs :
        /\ op[p] = "executeAndGetTransactionReceipt"
        /\ ResolvedAt(p, "getReceipt")
        /\ result[p].kind = "return"
        /\ op[r] = "executeGetTransactionRecord"
        /\ ~response[r]
        /\ CallsOf(r) = <<>>
        /\ result[r].kind = "raise"

\* --- C25

\* The native calls in the events of invocation p, the balance query of the
\* gauge's collect() included.
NativeCallsIssued(p) ==
    SelectSeq(events[p], LAMBDA ev : ev \in NativeCalls \cup {"collect.execute"})

\* C25: every native call the adapter has issued (execute of a query or a
\* transaction, getCost, getReceipt, getRecord, and the balance query of the
\* gauge) was given the client that was passed to the constructor; that
\* client is still the adapter's, and the registry still holds the
\* histogram and the gauge that the constructor registered, and nothing else.
C25_OneClient ==
    /\ clientMain = "clientMain"
    /\ \A p \in Procs :
        /\ Len(clients[p]) = Len(NativeCallsIssued(p))
        /\ \A i \in DOMAIN clients[p] : clients[p][i] = "clientMain"
    /\ Len(registry) = 2
    /\ \A i \in DOMAIN registry : registry[i].instance = 1
    /\ {registry[i].kind : i \in DOMAIN registry} = {"Histogram", "Gauge"}

\* Reached: a contract call that failed at its execute after its cost was
\* estimated, and a collection of the gauge whose balance query failed: three
\* native calls, each on the constructor's client.
C25_Witness ==
    \E p, r \in Procs :
        /\ op[p] = "submitContractCallQuery"
        /\ RejectedAt(p, "query.execute")
        /\ clients[p] = <<"clientMain", "clientMain">>
        /\ op[r] = "collect"
        /\ Done(r)
        /\ gauge = Some(0)
        /\ clients[r] = <<"clientMain">>

\* --- C26

\* C26: getTinyBarGasFee issues at most two file queries.  The first reads
\* the fee schedule file; the second reads the exchange rate file, and is
\* issued only once the fee schedule was read and parsed and its table holds
\* an entry with the contract-call code and fees.  When the read of the fee
\* schedule failed, the file was malformed, or no such entry exists, the
\* invocation ends after that one query.
C26_FeeScheduleBeforeExchangeRate ==
    \A p \in Procs :
        op[p] = "getTinyBarGasFee" =>
            /\ CallsOf(p) \in {<<"query.execute">>, <<"query.execute", "query.execute">>}
            /\ Len(CallsOf(p)) = 1 =>
                    /\ query[p].fileId = "constants.FEE_SCHEDULE_FILE_ID"
                    /\ exchangeRates[p] = None
            /\ Len(CallsOf(p)) = 2 =>
                    /\ query[p].fileId = "constants.EXCHANGE_RATE_FILE_ID"
                    /\ feeSchedules[p] # None
                    /\ HasTable(feeSchedules[p][1])
                    /\ PricedEntries(feeSchedules[p][1]) # {}
            /\ (Done(p) /\ feeSchedules[p] = None) => Len(CallsOf(p)) = 1
            /\ (/\ feeSchedules[p] # None
                /\ (~HasTable(feeSchedules[p][1]) \/ PricedEntries(feeSchedules[p][1]) = {}))
                    => Done(p) /\ Len(CallsOf(p)) = 1

\* Reached: the exchange rate file is being read after a fee schedule whose
\* second entry is the contract-call entry.
C26_Witness ==
    \E p \in Procs :
        /\ op[p] = "getTinyBarGasFee"
        /\ pc[p] = "query.execute"
        /\ CallsOf(p) = <<"query.execute", "query.execute">>
        /\ feeSchedules[p] # None
        /\ PricedEntries(feeSchedules[p][1]) = {2}

\* --- C27

\* The error with the message of e and nothing else: not the object e.
Fresh(e) == [native |-> FALSE, status |-> None, message |-> e.message]

\* What a catch block of the four executors throws for the error e it caught.
Rethrown(e) == IF e.status # None /\ e.status[1] # 0 THEN Fresh(e) ELSE e

\* The error the invalid-response check of executeGetTransactionRecord throws
\* inside its own try block.
InvalidResponseError ==
    [native |-> FALSE, status |-> None,
     message |-> "Invalid response format, expected record availability"]

\* C27: in each of the four executors the catch block throws a fresh error
\* with the message of the error it caught when that error has a status with
\* a non-zero code, and the caught error itself when it has no status or a
\* status of code 0.  executeQuery, executeTransaction and
\* executeGetTransactionRecord catch the native failure (the last also its
\* own invalid-response error); executeAndGetTransactionReceipt catches what
\* executeTransaction threw.
C27_RewrappedIffStatusCode ==
    \A p \in Procs :
        /\ (RejectedAt(p, "query.execute") \/ RejectedAt(p, "getRecord")) =>
                result[p] = Raise(Rethrown(RejectionOf(p)))
        /\ (RejectedAt(p, "transaction.execute") /\ op[p] = "submitEthereumTransaction") =>
                result[p] = Raise(Rethrown(RejectionOf(p)))
        /\ (RejectedAt(p, "transaction.execute") /\ op[p] = "executeAndGetTransactionReceipt") =>
                result[p] = Raise(Rethrown(Rethrown(RejectionOf(p))))
        /\ (op[p] = "executeGetTransactionRecord" /\ ~response[p]) =>
                result[p] = Raise(Rethrown(InvalidResponseError))

\* Reached: a record retrieval failed with a status of code 0 and the native
\* error came back with its status; a submission awaited for its receipt
\* failed with a failure code and a fresh error without status came back.
C27_Witness ==
    \E p, r \in Procs :
        /\ RejectedAt(p, "getRecord")
        /\ RejectionOf(p).status = Some(0)
        /\ result[p].error[1].native
        /\ result[p].error[1].status = Some(0)
        /\ op[r] = "executeAndGetTransactionReceipt"
        /\ RejectedAt(r, "transaction.execute")
        /\ RejectionOf(r).status = Some(10)
        /\ ~result[r].error[1].native
        /\ result[r].error[1].status = None
        /\ result[r].error[1].message = RejectionOf(r).message

\* --- C28

\* C28: when the retrieval of the record fails with a status S of non-zero
\* code, executeGetTransactionRecord records exactly one observation, with
\* mode TRANSACTION, the transactionName it was given, status S and cost 0,
\* and then raises the fresh error with the failure's message; when the
\* retrieval fails without a status, or with a status of code 0, it records
\* nothing and raises the very error it caught.
C28_RecordFailureObservation ==
    \A p \in Procs :
        RejectedAt(p, "getRecord") =>
            LET e == RejectionOf(p) IN
            /\ op[p] = "executeGetTransactionRecord"
            /\ IF e.status \in {Some(c) : c \in 1..255}
               THEN /\ events[p] = <<"getRecord", "observe", "raise">>
                    /\ observed[p] = <<[mode |-> "TRANSACTION", type |-> name[p],
                                        status |-> e.status, cost |-> 0]>>
                    /\ CopiesIn(observed[p][1], histogram) >= 1
                    /\ result[p] = Raise(Fresh(e))
               ELSE /\ events[p] = <<"getRecord", "raise">>
                    /\ observed[p] = <<>>
                    /\ result[p] = Raise(e)
                    /\ result[p].error[1].native

\* Reached: the retrieval of the record of a ContractCreateTransaction failed
\* with INSUFFICIENT_PAYER_BALANCE and left the one observation in the
\* histogram, and another retrieval failed without a status and left none.
C28_Witness ==
    \E p, r \in Procs :
        /\ RejectedAt(p, "getRecord")
        /\ name[p] = "ContractCreateTransaction"
        /\ RejectionOf(p).status = Some(10)
        /\ RejectedAt(r, "getRecord")
        /\ RejectionOf(r).status = None
        /\ histogram = SetToBag({[mode |-> "TRANSACTION", type |-> "ContractCreateTransaction",
                                  status |-> Some(10), cost |-> 0]})

\* --- C29

\* What a step adds to the histogram and to the decrements of the gauge.
NewObservations == histogram' (-) histogram
NewDecrements == gaugeDecs' (-) gaugeDecs

\* The step is one of a collection of the gauge.
CollectStep == \E p \in Procs : op'[p] = "collect" /\ pc'[p] # pc[p]

\* C29: in every step, what captureMetrics adds is one observation together
\* with one decrement: the decrement is on the series labelled with the mode
\* and type of the observation, and the observation's value is the cost the
\* decrement was given, or 0 when that cost is absent.  Nothing is ever
\* taken back.  Such a step leaves the unlabelled series of the gauge alone,
\* and a step of the gauge's collection, which sets the unlabelled series,
\* leaves the labelled ones alone.
C29_OneObservationOneDecrement ==
    [][/\ histogram \sqsubseteq histogram'
       /\ gaugeDecs \sqsubseteq gaugeDecs'
       /\ BagCardinality(NewObservations) = BagCardinality(NewDecrements)
       /\ BagCardinality(NewObservations) <= 1
       /\ \A o \in BagToSet(NewObservations) :
            \E d \in BagToSet(NewDecrements) :
                /\ d.mode = o.mode
                /\ d.type = o.type
                /\ o.cost = IF d.amount = <<>> THEN 0 ELSE d.amount[1]
       /\ NewDecrements # EmptyBag => gauge' = gauge
       /\ CollectStep => NewDecrements = EmptyBag /\ gaugeDecs' = gaugeDecs]_vars

\* Reached: a query without a payment was observed at 0 with a decrement by
\* an absent cost on the series (QUERY, AccountBalanceQuery), and a
\* collection has set the unlabelled series to 1.
C29_Witness ==
    /\ gauge = Some(1)
    /\ BagIn([mode |-> "QUERY", type |-> "AccountBalanceQuery", amount |-> <<>>], gaugeDecs)
    /\ \E o \in BagToSet(histogram) : o.cost = 0 /\ o.type = "AccountBalanceQuery"
    /\ BagCardinality(histogram) = BagCardinality(gaugeDecs)

\* --- C30

\* The collections of the gauge that have ended.
Collections == {p \in Procs : op[p] = "collect" /\ Done(p)}

\* C30: a collection of the gauge records nothing, whether its balance query
\* succeeded or failed: its invocation has no observation, and the histogram
\* holds one observation for each query that went through executeQuery and
\* has ended, however many collections there were.
C30_CollectNotObserved ==
    /\ \A p \in Procs :
        op[p] = "collect" =>
            /\ observed[p] = <<>>
            /\ Occurrences(events[p], "observe") = 0
    /\ BagCardinality(histogram) = Cardinality({p \in Procs : op[p] = "executeQuery" /\ Done(p)})
    /\ \A o \in BagToSet(histogram) :
        \E p \in Procs : op[p] = "executeQuery" /\ observed[p] = <<o>>

\* Reached: every invocation was a collection, one whose balance query
\* succeeded and one whose balance query failed, and the histogram is empty.
C30_Witness ==
    /\ Collections = Procs
    /\ \E p, r \in Procs :
        /\ ResolvedAt(p, "collect.execute")
        /\ RejectedAt(r, "collect.execute")
    /\ histogram = EmptyBag

====
